---- MODULE Spec2Model ----
(***************************************************************************)
(* A model of mealie-recipe-dredger: URL canonicalization (url_utils.py),   *)
(* the persistent store (storage.py), the import manager (importer.py),    *)
(* the sitemap crawler and its cache (crawler.py), the recipe verifier     *)
(* (verifier.py), the rate limiter (runtime.py) and the orchestrator       *)
(* (app.py: validate_config, load_sites_from_source, process_retry_queue,  *)
(* run).                                                                   *)
(***************************************************************************)
EXTENDS Integers, Sequences, FiniteSets, TLC

VARIABLES
    config,     \* config.py and the command line: the settings of one deployment
    storage,    \* StorageManager: imported, rejects, retry_queue, sitemap_cache, _changes_since_flush
    disk,       \* the JSON files flush_all writes: imported, rejects, retry_queue, sitemap_cache
    importer,   \* ImportManager: _mealie_import_path, _known_source_urls, _source_index_loaded/_failed
    kill_now,   \* GracefulKiller.kill_now
    pc,         \* where run() stands
    retry_pending,  \* process_retry_queue: the entries of `pending` not yet handled
    sites_left, \* run: the sites of sites_list not yet started
    candidates, \* run: the candidates of the current site not yet started
    site,       \* run: imported_count, site_import_failure_streak, abort_site, the candidate in hand
    pending_imports,    \* run: the futures of the current site, each with its URL and state
    orphans,    \* the imports still running in the pool after their site dropped them
    rate_limiter,   \* RateLimiter: last_request, crawl_delays
    called,     \* history: the keys a store operation was called with (the URLs whose import requested the listing)
    last        \* history: what the most recent step did, with its inputs

orch == <<kill_now, pc, retry_pending, sites_left, candidates, site,
          pending_imports, orphans>>

vars == <<config, storage, disk, importer, rate_limiter, called, last, orch>>

(***************************************************************************)
(* URLs.  A URL is modelled by the parts canonicalize_url acts on:         *)
(*   abs    it has a scheme and a netloc (urlsplit finds both)             *)
(*   upper  its scheme or host has an upper-case letter                    *)
(*   www    the number of leading "www." labels of its host                *)
(*   host   the rest of the host                                           *)
(*   path   the path, a sequence of "/" and segment names                  *)
(*   query  the keys of the query string, in the order written             *)
(* The empty string is EmptyUrl.                                           *)
(***************************************************************************)
EmptyUrl ==
    [abs |-> FALSE, upper |-> FALSE, www |-> 0, host |-> "", path |-> <<>>, query |-> <<>>]

\* "https://" + w times "www." + h + "/r", with a trailing slash when s.
Url(w, h, s) ==
    [abs |-> TRUE, upper |-> FALSE, www |-> w, host |-> h,
     path |-> IF s THEN <<"/", "r", "/">> ELSE <<"/", "r">>, query |-> <<>>]

\* The URLs the model draws its inputs from: two spellings of one page and
\* a second page.
URLS == {Url(0, "a", FALSE), Url(1, "a", TRUE), Url(0, "b", FALSE)}

\* url_utils.TRACKING_QUERY_KEYS
TRACKING_QUERY_KEYS ==
    {"fbclid", "gclid", "igshid", "mc_cid", "mc_eid", "ref", "ref_src", "ref_url", "s", "spm"}

\* The query keys of the model in the order sorted() gives them (upper case
\* sorts before lower case).
QUERY_KEYS == <<"UTM_SOURCE", "fbclid", "id", "page", "utm_source">>

\* str.lower() on a query key
LowerKey(key) == IF key = "UTM_SOURCE" THEN "utm_source" ELSE key

\* key.startswith("utm_")
StartsWithUtm(key) == key \in {"utm_source"}

\* url_utils.canonicalize_url, the test that drops a query parameter
IsTrackingKey(key) ==
    StartsWithUtm(LowerKey(key)) \/ LowerKey(key) \in TRACKING_QUERY_KEYS

KeyRank(key) == CHOOSE i \in DOMAIN QUERY_KEYS : QUERY_KEYS[i] = key

\* the list comprehension over parse_qsl(...): the pairs that are kept
RECURSIVE FilterQuery(_)
FilterQuery(q) ==
    IF q = <<>> THEN <<>>
    ELSE IF IsTrackingKey(Head(q)) THEN FilterQuery(Tail(q))
    ELSE <<Head(q)>> \o FilterQuery(Tail(q))

RECURSIVE InsertKey(_, _)
InsertKey(sorted, key) ==
    IF sorted = <<>> THEN <<key>>
    ELSE IF KeyRank(key) < KeyRank(Head(sorted)) THEN <<key>> \o sorted
    ELSE <<Head(sorted)>> \o InsertKey(Tail(sorted), key)

\* filtered.sort()
RECURSIVE SortQuery(_)
SortQuery(q) ==
    IF q = <<>> THEN <<>> ELSE InsertKey(SortQuery(Tail(q)), Head(q))

\* re.sub(r"/+", "/", path)
RECURSIVE CollapseSlashes(_)
CollapseSlashes(path) ==
    IF Len(path) < 2 THEN path
    ELSE IF path[1] = "/" /\ path[2] = "/" THEN CollapseSlashes(Tail(path))
    ELSE <<Head(path)>> \o CollapseSlashes(Tail(path))

\* `parts.path or "/"`, the repeated slashes collapsed, and `path[:-1]`
\* when the path ends in a slash and is not "/"
CleanPath(path) ==
    LET p1 == IF path = <<>> THEN <<"/">> ELSE path
        p2 == CollapseSlashes(p1)
    IN  IF p2 # <<"/">> /\ p2[Len(p2)] = "/"
        THEN SubSeq(p2, 1, Len(p2) - 1) ELSE p2

\* raw.lower(): what canonicalize_url returns for input without a scheme or
\* a netloc
LowerRaw(url) ==
    [url EXCEPT !.upper = FALSE,
                !.query = [i \in DOMAIN url.query |-> LowerKey(url.query[i])]]

\* the netloc with one leading "www." removed
StripWww(www) == IF www > 0 THEN www - 1 ELSE 0

\* url_utils.canonicalize_url: "" stays ""; input without scheme or netloc
\* is lower-cased only; otherwise scheme and netloc are lower-cased, one
\* leading "www." is removed from the netloc, the path is cleaned, the
\* tracking parameters are dropped and the others sorted.
canonicalize_url(url) ==
    IF url = EmptyUrl THEN EmptyUrl
    ELSE IF ~url.abs THEN LowerRaw(url)
    ELSE [abs |-> TRUE, upper |-> FALSE, www |-> StripWww(url.www),
          host |-> url.host, path |-> CleanPath(url.path),
          query |-> SortQuery(FilterQuery(url.query))]

\* `canonicalize_url(url) or url` (app.py)
UrlKey(url) ==
    IF canonicalize_url(url) # EmptyUrl THEN canonicalize_url(url) ELSE url

\* StorageManager._normalize_url_key: `canonicalize_url(url) or url.strip().lower()`
\* (the model's URLs are already stripped and lower-case).
_normalize_url_key(url) ==
    IF canonicalize_url(url) # EmptyUrl THEN canonicalize_url(url) ELSE url

KEYS == {_normalize_url_key(u) : u \in URLS}

(***************************************************************************)
(* Dictionaries: functions whose domain is the set of keys present.        *)
(***************************************************************************)
EmptyDict == [x \in {} |-> 0]

DictPut(d, k, v) == [x \in (DOMAIN d) \cup {k} |-> IF x = k THEN v ELSE d[x]]

DictPop(d, k) == [x \in (DOMAIN d) \ {k} |-> d[x]]

\* dict.get(k, {}).get("attempts", 0)
Attempts(d, k) == IF k \in DOMAIN d THEN d[k].attempts ELSE 0

(***************************************************************************)
(* StorageManager.  A store state W is the pair of the in-memory object    *)
(* (W.mem) and the files (W.disk); every operation maps W to W.            *)
(***************************************************************************)
FLUSH_THRESHOLD == 50

\* flush_all: every file is rewritten from memory, the change counter reset.
flush_all(W) ==
    [mem  |-> [W.mem EXCEPT !._changes_since_flush = 0],
     disk |-> [imported      |-> W.mem.imported,
               rejects       |-> W.mem.rejects,
               retry_queue   |-> W.mem.retry_queue,
               sitemap_cache |-> W.mem.sitemap_cache]]

\* _auto_flush
_auto_flush(W) ==
    IF W.mem._changes_since_flush >= FLUSH_THRESHOLD THEN flush_all(W) ELSE W

\* `self._changes_since_flush += 1; self._auto_flush()`
Changed(W) ==
    _auto_flush([W EXCEPT !.mem._changes_since_flush = @ + 1])

add_imported(W, url) ==
    LET url_key == _normalize_url_key(url)
    IN  Changed([W EXCEPT !.mem.imported = @ \cup {url_key},
                          !.mem.retry_queue = DictPop(@, url_key)])

add_reject(W, url) ==
    LET url_key == _normalize_url_key(url)
    IN  Changed([W EXCEPT !.mem.rejects = @ \cup {url_key},
                          !.mem.retry_queue = DictPop(@, url_key)])

\* An add_retry that never counts the attempt.
add_retry_uncounted(W, url, increment) ==
    LET url_key == _normalize_url_key(url)
    IN  Changed([W EXCEPT !.mem.retry_queue =
                     DictPut(@, url_key, [attempts |-> Attempts(@, url_key)])])

add_retry(W, url, increment) ==
    LET url_key  == _normalize_url_key(url)
        attempts == Attempts(W.mem.retry_queue, url_key)
                    + (IF increment THEN 1 ELSE 0)
    IN  Changed([W EXCEPT !.mem.retry_queue =
                              DictPut(@, url_key, [attempts |-> attempts])])

remove_retry(W, url) ==
    LET url_key == _normalize_url_key(url)
    IN  IF url_key \in DOMAIN W.mem.retry_queue
        THEN Changed([W EXCEPT !.mem.retry_queue = DictPop(@, url_key)])
        ELSE W

\* The store of a first start: no file exists, every collection is empty.
EmptyFiles ==
    [imported |-> {}, rejects |-> {}, retry_queue |-> EmptyDict,
     sitemap_cache |-> EmptyDict]

\* StorageManager.__init__: the files are loaded, their keys normalized.
\* Two file keys with one normal form keep the entry with more attempts.
_canonicalize_retry_queue(queue) ==
    [k \in {_normalize_url_key(x) : x \in DOMAIN queue} |->
        LET same == {x \in DOMAIN queue : _normalize_url_key(x) = k}
            top  == CHOOSE x \in same :
                        \A y \in same : queue[y].attempts <= queue[x].attempts
        IN  queue[top]]

StorageManager(files) ==
    [imported      |-> {_normalize_url_key(x) : x \in files.imported},
     rejects       |-> {_normalize_url_key(x) : x \in files.rejects},
     retry_queue   |-> _canonicalize_retry_queue(files.retry_queue),
     sitemap_cache |-> files.sitemap_cache,
     _changes_since_flush |-> 0]

World == [mem |-> storage, disk |-> disk]

SetWorld(W) == storage' = W.mem /\ disk' = W.disk

(***************************************************************************)
(* Configuration (config.py, and run()'s command line).  The settings are  *)
(* read once at start; the model keeps them in `config`.                   *)
(***************************************************************************)
TRANSIENT_HTTP_CODES == {408, 425, 429, 500, 502, 503, 504, 520, 521, 522, 523, 524}

\* config.py's defaults, with a live (not dry-run) single-worker import.
DefaultConfig ==
    [MAX_RETRY_ATTEMPTS |-> 3,
     IMPORT_WORKERS |-> 1,
     SITE_IMPORT_FAILURE_THRESHOLD |-> 3,
     MEALIE_ENABLED |-> TRUE,
     IMPORT_PRECHECK_DUPLICATES |-> TRUE,
     dry_run_mode |-> FALSE,
     force_refresh |-> FALSE,
     scan_depth_count |-> 1000,
     target_count |-> 50]

NoEvent == [op |-> "none"]

\* The locals of run() outside a site's processing.
NoSite ==
    [imported_count |-> 0, site_import_failure_streak |-> 0,
     abort_site |-> FALSE, url |-> EmptyUrl]

\* The orchestrator at rest: the value of its variables in the
\* specifications that exercise one component alone.
Idle ==
    /\ kill_now = FALSE
    /\ pc = "idle"
    /\ retry_pending = <<>>
    /\ sites_left = 0
    /\ candidates = <<>>
    /\ site = NoSite
    /\ pending_imports = {}
    /\ orphans = {}

(***************************************************************************)
(* RateLimiter (runtime.py): two maps keyed by domain, and the session it  *)
(* requests robots.txt with: the number of requests sent, by domain.       *)
(***************************************************************************)
\* RateLimiter.__init__
RateLimiter ==
    [last_request |-> EmptyDict, crawl_delays |-> EmptyDict, session |-> EmptyDict]

\* `self.session.get(f"https://{domain}/robots.txt", timeout=5)` is sent
RobotsRequested(rl, domain) ==
    [rl EXCEPT !.session =
        DictPut(@, domain, IF domain \in DOMAIN @ THEN @[domain] + 1 ELSE 1)]

\* config.DEFAULT_CRAWL_DELAY (its default), in seconds
DEFAULT_CRAWL_DELAY == 2

\* What robots.txt gives get_crawl_delay when it has no usable Crawl-delay
\* line, is not answered with 200, or cannot be fetched.
NoDelay == -1

\* get_crawl_delay(domain): the memoized delay, or the one robots.txt gives
\* (else the default), stored in crawl_delays.
get_crawl_delay(rl, domain, robots_delay) ==
    IF domain \in DOMAIN rl.crawl_delays
    THEN [rl |-> rl, delay |-> rl.crawl_delays[domain], requested |-> FALSE]
    ELSE LET delay == IF robots_delay = NoDelay THEN DEFAULT_CRAWL_DELAY
                      ELSE robots_delay
         IN  [rl |-> [RobotsRequested(rl, domain) EXCEPT
                         !.crawl_delays = DictPut(@, domain, delay)],
              delay |-> delay, requested |-> TRUE]

\* A wait_if_needed that never finds a reason to sleep.
WaitBegin_no_sleep(rl, domain, robots_delay, now) ==
    [rl |-> get_crawl_delay(rl, domain, robots_delay).rl, sleeps |-> FALSE]

\* wait_if_needed up to its sleep: the delay is looked up and last_request
\* read at time `now`; sleeps tells whether time.sleep is called.
WaitBegin(rl, domain, robots_delay, now) ==
    LET d == get_crawl_delay(rl, domain, robots_delay)
    IN  [rl |-> d.rl,
         sleeps |-> /\ domain \in DOMAIN rl.last_request
                    /\ now - rl.last_request[domain] < d.delay]

\* wait_if_needed, its last line: `self.last_request[domain] = time.time()`
WaitEnd(rl, domain, now) ==
    [rl EXCEPT !.last_request = DictPut(@, domain, now)]

\* The first Crawl-delay line of robots.txt whose value float() parses
\* (`break`), NoDelay when there is none (`except ValueError: pass` goes on
\* to the next line).  A line says whether it starts with "crawl-delay:"
\* in lower case, whether its value parses, and the value in seconds.
RECURSIVE FirstParsable(_)
FirstParsable(lines) ==
    IF lines = <<>> THEN NoDelay
    ELSE IF Head(lines).crawl_delay /\ Head(lines).parsable THEN Head(lines).value
    ELSE FirstParsable(Tail(lines))

\* get_crawl_delay, what its request of robots.txt gives: `except Exception:
\* pass` for a request that raises, nothing for a status other than 200.
RobotsDelay(robots) ==
    IF robots.response.kind # "status" THEN NoDelay
    ELSE IF robots.response.status # 200 THEN NoDelay
    ELSE FirstParsable(robots.lines)

\* The value of random.uniform(0.5, 1.5), in quarters.
JITTERS == {2, 3, 4, 5}

\* A wait_if_needed that records the time only after a sleep.
wait_if_needed_unrecorded(rl, domain, robots, now, jitter, lag) ==
    LET begin      == WaitBegin(rl, domain, RobotsDelay(robots), now)
        delay      == begin.rl.crawl_delays[domain]
        sleep_time == IF begin.sleeps
                      THEN ((delay - (now - rl.last_request[domain])) * jitter) \div 4
                      ELSE 0
    IN  [rl |-> IF begin.sleeps
                THEN WaitEnd(begin.rl, domain, now + sleep_time + lag)
                ELSE begin.rl,
         delay |-> delay, slept |-> begin.sleeps, sleep_time |-> sleep_time]

\* RateLimiter.wait_if_needed(url) run by one thread, for the domain of url.
\* `now` is the time.time() of the elapsed test, jitter the value drawn (in
\* quarters), lag the time that passes until the last time.time() beyond the
\* sleep asked for.
wait_if_needed(rl, domain, robots, now, jitter, lag) ==
    LET begin      == WaitBegin(rl, domain, RobotsDelay(robots), now)
        delay      == begin.rl.crawl_delays[domain]
        sleep_time == IF begin.sleeps
                      THEN ((delay - (now - rl.last_request[domain])) * jitter) \div 4
                      ELSE 0
    IN  [rl |-> WaitEnd(begin.rl, domain, now + sleep_time + lag),
         delay |-> delay, slept |-> begin.sleeps, sleep_time |-> sleep_time]

(***************************************************************************)
(* ImportManager (importer.py).                                            *)
(***************************************************************************)
\* ImportManager.__init__
ImportManager ==
    [_mealie_import_path  |-> 0,      \* None; 1 and 2 are the two endpoint paths
     _known_source_urls   |-> {},
     _source_index_loaded |-> FALSE,
     _source_index_failed |-> FALSE]

\* self._mealie_endpoint_candidates: "/api/recipes/create/url", "/api/recipes/create-url"
_mealie_endpoint_candidates == <<1, 2>>

\* The outcome tuple (imported, import_error, import_transient).  An error
\* is its text's leading part: kind "HTTP" with the status is "HTTP <status>...".
NoError == [kind |-> "None", status |-> 0]

HttpError(status) == [kind |-> "HTTP", status |-> status]

OtherError(kind) == [kind |-> kind, status |-> 0]

Outcome(imported, error, transient) ==
    [imported |-> imported, error |-> error, transient |-> transient]

Success == Outcome(TRUE, NoError, FALSE)

\* What the backend (or the network) answers to one request: an HTTP status
\* or a raised exception.
Status(n) == [kind |-> "status", status |-> n]

Raised(kind) == [kind |-> kind, status |-> 0]

\* No network operation; the counts of what one call did on the network.
NoNet == [gets |-> 0, posts |-> 0, waits |-> 0]

\* _load_existing_sources: the paginated listing is requested unless the
\* index is loaded or has failed.  listing.ok is FALSE for a non-200 page, a
\* bad payload or an exception; listing.sources are the URLs the backend lists.
_load_existing_sources(imp, listing) ==
    IF imp._source_index_loaded \/ imp._source_index_failed THEN imp
    ELSE IF ~listing.ok
         THEN [imp EXCEPT !._source_index_failed = TRUE]
         ELSE [imp EXCEPT
                 !._known_source_urls =
                     {canonicalize_url(x) : x \in listing.sources} \ {EmptyUrl},
                 !._source_index_loaded = TRUE]

\* Whether _load_existing_sources sends its GET.
ListingRequested(imp, cfg) ==
    /\ cfg.IMPORT_PRECHECK_DUPLICATES
    /\ ~(imp._source_index_loaded \/ imp._source_index_failed)

\* A precheck that looks the URL up as it is spelled.
_precheck_duplicate_source_raw(imp, cfg, url) ==
    /\ cfg.IMPORT_PRECHECK_DUPLICATES
    /\ ~imp._source_index_failed
    /\ url # EmptyUrl
    /\ url \in imp._known_source_urls

\* _precheck_duplicate_source, its return value given the importer after
\* the index load.
_precheck_duplicate_source(imp, cfg, url) ==
    /\ cfg.IMPORT_PRECHECK_DUPLICATES
    /\ ~imp._source_index_failed
    /\ canonicalize_url(url) # EmptyUrl
    /\ canonicalize_url(url) \in imp._known_source_urls

\* The candidate paths in their configured order, whatever is remembered.
CandidatePaths_configured_order(imp) == _mealie_endpoint_candidates

\* candidate_paths: the remembered path first.
CandidatePaths(imp) ==
    IF imp._mealie_import_path = 0 THEN _mealie_endpoint_candidates
    ELSE <<imp._mealie_import_path>> \o
         SelectSeq(_mealie_endpoint_candidates,
                   LAMBDA p : p # imp._mealie_import_path)

\* A transient test that takes every server error, and nothing else.
IsTransientStatus_server_errors(status) == status >= 500

\* `response.status_code in TRANSIENT_HTTP_CODES`
IsTransientStatus(status) == status \in TRANSIENT_HTTP_CODES

\* An accepted-status test that forgets 409.
IsAcceptedStatus_no409(status) == status \in {200, 201, 202}

\* `status_code in [200, 201, 202]`, and `status_code == 409`: both branches
\* remember the path and the source URL and return success.
IsAcceptedStatus(status) == status \in {200, 201, 202} \/ status = 409

\* The importer after a 2xx or a 409 on `path`.
Remember(imp, path, url) ==
    [imp EXCEPT
        !._mealie_import_path = path,
        !._known_source_urls =
            IF canonicalize_url(url) # EmptyUrl
            THEN @ \cup {canonicalize_url(url)} ELSE @]

\* The except clauses of import_to_mealie.
ExceptionOutcome(kind) ==
    CASE kind = "Timeout"          -> Outcome(FALSE, OtherError("Timeout"), TRUE)
      [] kind = "ConnectionError"  -> Outcome(FALSE, OtherError("Connection error"), TRUE)
      [] kind = "RequestException" -> Outcome(FALSE, OtherError("Request error"), TRUE)
      [] OTHER                     -> Outcome(FALSE, OtherError("Exception"), FALSE)

\* The loop over candidate_paths: one POST per path until a response decides.
\* responses[i] answers the i-th POST of this call; tried are the paths
\* POSTed to so far.
RECURSIVE PostLoop(_, _, _, _, _, _)
PostLoop(imp, url, paths, responses, endpoint_error, tried) ==
    IF paths = <<>>
    THEN [outcome |-> Outcome(FALSE,
                              IF endpoint_error # NoError THEN endpoint_error
                              ELSE OtherError("No compatible Mealie import endpoint found"),
                              FALSE),
          imp |-> imp, tried |-> tried, decided |-> Status(0)]
    ELSE LET path     == Head(paths)
             response == Head(responses)
             sent     == Append(tried, path)
         IN  IF response.kind # "status"
             THEN [outcome |-> ExceptionOutcome(response.kind),
                   imp |-> imp, tried |-> sent, decided |-> response]
             ELSE IF IsAcceptedStatus(response.status)
             THEN [outcome |-> Success,
                   imp |-> Remember(imp, path, url),
                   tried |-> sent, decided |-> response]
             ELSE IF response.status \in {404, 405}
             THEN PostLoop(imp, url, Tail(paths), Tail(responses),
                           HttpError(response.status), sent)
             ELSE IF IsTransientStatus(response.status)
             THEN [outcome |-> Outcome(FALSE, HttpError(response.status), TRUE),
                   imp |-> imp, tried |-> sent, decided |-> response]
             ELSE [outcome |-> Outcome(FALSE, HttpError(response.status), FALSE),
                   imp |-> imp, tried |-> sent, decided |-> response]

\* An import_to_mealie that does not look at dry_run.
import_to_mealie_wet(imp, cfg, url, env) ==
    LET gets   == IF ListingRequested(imp, cfg) THEN 1 ELSE 0
        loaded == IF cfg.IMPORT_PRECHECK_DUPLICATES
                  THEN _load_existing_sources(imp, env.listing) ELSE imp
    IN  IF _precheck_duplicate_source(loaded, cfg, url)
        THEN [outcome |-> Success, imp |-> loaded,
              net |-> [gets |-> gets, posts |-> 0, waits |-> 0],
              decided |-> Status(0), tried |-> <<>>, answers |-> <<>>]
        ELSE LET r == PostLoop(loaded, url, CandidatePaths(loaded),
                               env.responses, NoError, <<>>)
             IN  [outcome |-> r.outcome, imp |-> r.imp,
                  net |-> [gets |-> gets, posts |-> Len(r.tried), waits |-> 1],
                  decided |-> r.decided, tried |-> r.tried,
                  answers |-> SubSeq(env.responses, 1, Len(r.tried))]

\* import_to_mealie(url).  env.listing answers the recipe listing,
\* env.responses the POSTs.  The value: the outcome tuple, the importer
\* afterwards, what went over the network, the response that decided, the
\* paths POSTed to and the answers they got.
import_to_mealie(imp, cfg, url, env) ==
    IF cfg.dry_run_mode
    THEN [outcome |-> Success, imp |-> imp, net |-> NoNet, decided |-> Status(0),
          tried |-> <<>>, answers |-> <<>>]
    ELSE LET gets   == IF ListingRequested(imp, cfg) THEN 1 ELSE 0
             loaded == IF cfg.IMPORT_PRECHECK_DUPLICATES
                       THEN _load_existing_sources(imp, env.listing) ELSE imp
         IN  IF _precheck_duplicate_source(loaded, cfg, url)
             THEN [outcome |-> Success, imp |-> loaded,
                   net |-> [gets |-> gets, posts |-> 0, waits |-> 0],
                   decided |-> Status(0), tried |-> <<>>, answers |-> <<>>]
             ELSE LET r == PostLoop(loaded, url, CandidatePaths(loaded),
                                    env.responses, NoError, <<>>)
                  IN  [outcome |-> r.outcome, imp |-> r.imp,
                       net |-> [gets |-> gets, posts |-> Len(r.tried), waits |-> 1],
                       decided |-> r.decided, tried |-> r.tried,
                       answers |-> SubSeq(env.responses, 1, Len(r.tried))]

\* import_recipe(url)
import_recipe(imp, cfg, url, env) ==
    IF ~cfg.MEALIE_ENABLED
    THEN [outcome |-> Outcome(FALSE, OtherError("Mealie import is disabled"), FALSE),
          imp |-> imp, net |-> NoNet, decided |-> Status(0),
          tried |-> <<>>, answers |-> <<>>]
    ELSE import_to_mealie(imp, cfg, url, env)

\* `import_error.startswith("HTTP 5")`
IsHttp5(error) ==
    error.kind = "HTTP" /\ error.status >= 500 /\ error.status <= 599

(***************************************************************************)
(* SpecImport: one ImportManager, called with arbitrary URLs against an    *)
(* arbitrary backend.                                                      *)
(***************************************************************************)
\* The HTTP statuses the modelled backend answers with.
STATUSES == {200, 201, 202, 409, 404, 405, 400, 429, 501, 503}

RESPONSES ==
    {Status(n) : n \in STATUSES}
        \cup {Raised(k) : k \in {"Timeout", "ConnectionError", "RequestException", "Exception"}}

\* The answers to the POSTs of one call: a second POST is sent only after a
\* 404 or 405, so only then does the second answer vary.
RESPONSE_SEQS ==
    {<<r, Status(404)>> : r \in RESPONSES}
        \cup {<<r1, r2>> : r1 \in {Status(404), Status(405)}, r2 \in RESPONSES}

LISTINGS ==
    {[ok |-> FALSE, sources |-> {}]}
        \cup {[ok |-> TRUE, sources |-> x] :
                x \in {{}, {Url(1, "a", TRUE)}}}

ENVS == [listing : LISTINGS, responses : RESPONSE_SEQS]

\* The answers that can make a difference to a call: the listing varies
\* only when the call requests it.
EnvsFor(imp, cfg) ==
    IF ~cfg.dry_run_mode /\ cfg.MEALIE_ENABLED /\ ListingRequested(imp, cfg)
    THEN ENVS
    ELSE {env \in ENVS : env.listing = [ok |-> FALSE, sources |-> {}]}

\* The URLs import_recipe is called with: those of URLS and one more
\* spelling of the first page, with a tracking parameter.
IMPORT_URLS == URLS \cup {[Url(0, "a", FALSE) EXCEPT !.query = <<"utm_source">>]}

ImportInit ==
    /\ config \in
         {[DefaultConfig EXCEPT !.dry_run_mode = d, !.MEALIE_ENABLED = m,
                                !.IMPORT_PRECHECK_DUPLICATES = p] :
            d \in BOOLEAN, m \in BOOLEAN, p \in BOOLEAN}
    /\ storage = StorageManager(EmptyFiles)
    /\ disk = EmptyFiles
    /\ importer = ImportManager
    /\ called = {}
    /\ rate_limiter = RateLimiter
    /\ last = NoEvent
    /\ Idle

\* A call of import_recipe(url).
ImportRecipeCall ==
    \E url \in IMPORT_URLS, env \in EnvsFor(importer, config) :
        LET r == import_recipe(importer, config, url, env)
        IN  /\ importer' = r.imp
            /\ last' = [op |-> "import_recipe", url |-> url, outcome |-> r.outcome,
                        net |-> r.net, decided |-> r.decided,
                        tried |-> r.tried, answers |-> r.answers]
            /\ UNCHANGED <<config, storage, disk, called, rate_limiter, orch>>

ImportNext == ImportRecipeCall

SpecImport == ImportInit /\ [][ImportNext]_vars

(***************************************************************************)
(* The orchestrator (app.py).  Its handlers are operators on a bundle S:   *)
(* S.W the store (memory and files), S.site the locals of the site loop.   *)
(***************************************************************************)
Bundle == [W |-> World, site |-> site]

\* What verify_recipe(url) returns, as (is_recipe, transient):
\* "accept" (True, False), "reject" (False, False), "transient" (False, True).
VERDICTS == {"accept", "reject", "transient"}

\* A handler that drops the outcome.
handle_import_result_dropped(S, url_key, outcome) == S

\* run.handle_import_result; its return value is outcome.imported.
handle_import_result(S, url_key, outcome) ==
    IF outcome.imported
    THEN [S EXCEPT !.W = add_imported(@, url_key)]
    ELSE IF outcome.transient
    THEN [S EXCEPT !.W = add_retry(@, url_key, TRUE)]
    ELSE [S EXCEPT !.W = add_reject(@, url_key)]

\* `SITE_IMPORT_FAILURE_THRESHOLD > 0 and site_import_failure_streak >= SITE_IMPORT_FAILURE_THRESHOLD`
BreakerTrips(streak) ==
    /\ config.SITE_IMPORT_FAILURE_THRESHOLD > 0
    /\ streak >= config.SITE_IMPORT_FAILURE_THRESHOLD

\* The candidate loop's sequential branch after import_recipe returned.
SequentialImportResult(S, url_key, outcome) ==
    LET S1 == handle_import_result(S, url_key, outcome)
    IN  IF outcome.imported
        THEN [S1 EXCEPT !.site.imported_count = @ + 1,
                        !.site.site_import_failure_streak = 0]
        ELSE IF IsHttp5(outcome.error)
        THEN [S1 EXCEPT
                !.site.site_import_failure_streak = @ + 1,
                !.site.abort_site =
                    @ \/ BreakerTrips(S1.site.site_import_failure_streak + 1)]
        ELSE [S1 EXCEPT !.site.site_import_failure_streak = 0]

\* drain_imports, the body of `for future in done` for one future.
DrainOne(S, future) ==
    LET url_key == UrlKey(future.url)
        S1      == handle_import_result(S, url_key, future.outcome)
    IN  IF future.outcome.imported
        THEN [S1 EXCEPT !.site.imported_count = @ + 1,
                        !.site.site_import_failure_streak = 0]
        ELSE IF IsHttp5(future.outcome.error)
        THEN [S1 EXCEPT
                !.site.site_import_failure_streak = @ + 1,
                !.site.abort_site =
                    @ \/ BreakerTrips(S1.site.site_import_failure_streak + 1)]
        ELSE [S1 EXCEPT !.site.site_import_failure_streak = 0]

\* drain_imports, the loop over `done` in the order `order` (a set has no
\* order of its own: every order is possible).
RECURSIVE DrainSeq(_, _)
DrainSeq(S, order) ==
    IF order = <<>> THEN S
    ELSE DrainSeq(DrainOne(S, Head(order)), Tail(order))

\* The futures of `pending` that are done.
DoneOf(pending) == {f \in pending : f.st = "done"}

\* The sequences that list every element of the set X once.
Orders(X) ==
    {o \in [1..Cardinality(X) -> X] : \A x \in X : \E i \in DOMAIN o : o[i] = x}

\* process_retry_queue, the body of `for url, meta in pending` for one
\* entry, after verify_recipe gave `verdict` and (when called) import_recipe
\* gave `outcome`.  Only S.W is used.
RetryRejectAtMax(S, url_key) ==
    IF Attempts(S.W.mem.retry_queue, url_key) >= config.MAX_RETRY_ATTEMPTS
    THEN [S EXCEPT !.W = add_reject(remove_retry(@, url_key), url_key)]
    ELSE S

\* A retry pass that never gives up on an entry before trying it.
RetryEntry_always_tried(S, entry, verdict, outcome) ==
    LET url_key == UrlKey(entry.url)
    IN  IF verdict = "accept" /\ outcome.imported
        THEN [S EXCEPT !.W = add_imported(@, url_key)]
        ELSE [S EXCEPT !.W = add_reject(remove_retry(@, url_key), url_key)]

RetryEntry(S, entry, verdict, outcome) ==
    LET url_key == UrlKey(entry.url)
    IN  IF entry.attempts >= config.MAX_RETRY_ATTEMPTS
        THEN [S EXCEPT !.W = add_reject(remove_retry(@, url_key), url_key)]
        ELSE IF verdict # "accept"
        THEN IF verdict = "transient"
             THEN RetryRejectAtMax(
                      [S EXCEPT !.W = add_retry(@, url_key, TRUE)],
                      url_key)
             ELSE [S EXCEPT !.W = add_reject(remove_retry(@, url_key), url_key)]
        ELSE IF outcome.imported
        THEN [S EXCEPT !.W = add_imported(@, url_key)]
        ELSE IF outcome.transient
        THEN RetryRejectAtMax(
                 [S EXCEPT !.W = add_retry(@, url_key, TRUE)],
                 url_key)
        ELSE [S EXCEPT !.W = add_reject(remove_retry(@, url_key), url_key)]

\* A skip test that forgets the retry queue.
AlreadyProcessed_no_retry(mem, url_key) ==
    url_key \in mem.imported \/ url_key \in mem.rejects

\* `url_key in storage.imported or url_key in storage.rejects or url_key in storage.retry_queue`
AlreadyProcessed(mem, url_key) ==
    \/ url_key \in mem.imported
    \/ url_key \in mem.rejects
    \/ url_key \in DOMAIN mem.retry_queue

\* A gate that lets one import too many into the pool.
PoolFull_off_by_one(imported_count, in_flight) ==
    in_flight > 0 /\ imported_count + in_flight > config.target_count

\* `pending_imports and imported_count + len(pending_imports) >= target_count`
PoolFull(imported_count, in_flight) ==
    in_flight > 0 /\ imported_count + in_flight >= config.target_count

\* config.CACHE_EXPIRY_DAYS (its default); the clock counts days.
CACHE_EXPIRY_DAYS == 7

\* What get_cached_sitemap returns for None.
NoEntry == [urls |-> <<>>, timestamp |-> -1]

\* A lookup that never expires an entry.
get_cached_sitemap_no_expiry(mem, s, now) ==
    IF s \notin DOMAIN mem.sitemap_cache THEN NoEntry ELSE mem.sitemap_cache[s]

\* StorageManager.get_cached_sitemap(site_url) at time `now`
get_cached_sitemap(mem, s, now) ==
    IF s \notin DOMAIN mem.sitemap_cache THEN NoEntry
    ELSE IF now - mem.sitemap_cache[s].timestamp > CACHE_EXPIRY_DAYS THEN NoEntry
    ELSE mem.sitemap_cache[s]

\* A cache_sitemap that stores nothing.
cache_sitemap_dropped(W, s, urls, now) == W

\* StorageManager.cache_sitemap(site_url, sitemap_url, urls) at time `now`
cache_sitemap(W, s, urls, now) ==
    Changed([W EXCEPT !.mem.sitemap_cache =
                          DictPut(@, s, [urls |-> urls, timestamp |-> now])])

\* A get_urls_for_site that takes a cached empty list for a miss.
get_urls_for_site_empty_is_miss(W, s, net) ==
    LET cached == IF config.force_refresh THEN NoEntry
                  ELSE get_cached_sitemap(W.mem, s, net.now)
    IN  IF cached # NoEntry /\ cached.urls # <<>>
        THEN [W |-> W, urls |-> cached.urls, http |-> FALSE]
        ELSE IF ~net.found
        THEN [W |-> W, urls |-> <<>>, http |-> TRUE]
        ELSE [W |-> cache_sitemap(W, s, net.urls, net.now),
              urls |-> net.urls, http |-> TRUE]

\* SitemapCrawler.get_urls_for_site(site, force_refresh), given what the
\* clock and the network answer: net.now, net.found (find_sitemap returns a
\* sitemap), net.urls (what fetch_sitemap_urls returns).  The value: the
\* store afterwards, the candidates' URLs, and whether a request was sent.
get_urls_for_site(W, s, net) ==
    LET cached == IF config.force_refresh THEN NoEntry
                  ELSE get_cached_sitemap(W.mem, s, net.now)
    IN  IF cached # NoEntry
        THEN [W |-> W, urls |-> cached.urls, http |-> FALSE]
        ELSE IF ~net.found
        THEN [W |-> W, urls |-> <<>>, http |-> TRUE]
        ELSE [W |-> cache_sitemap(W, s, net.urls, net.now),
              urls |-> net.urls, http |-> TRUE]

\* `raw_candidates[:scan_depth_count]`
Truncate(urls, n) == SubSeq(urls, 1, IF Len(urls) < n THEN Len(urls) ELSE n)

\* random.shuffle: every order of the same elements.
Shuffles(seq) ==
    {o \in [1..Len(seq) -> {seq[i] : i \in 1..Len(seq)}] :
        \E p \in [1..Len(seq) -> 1..Len(seq)] :
            /\ \A i, j \in 1..Len(seq) : i # j => p[i] # p[j]
            /\ \A i \in 1..Len(seq) : o[i] = seq[p[i]]}

(***************************************************************************)
(* Spec: runs of the orchestrator, one after the other, on one data        *)
(* directory.  The control thread's steps are the actions Run*, Site*,     *)
(* Cand*, Gate* and Final*; Signal is the stop signal; Worker* and         *)
(* OrphanFinish are the pool's threads.                                    *)
(***************************************************************************)
MaxRetry == 2       \* MAX_RETRY_ATTEMPTS is drawn from 1..MaxRetry
MaxTarget == 2      \* target_count (--limit) from 1..MaxTarget
MaxDepth == 2       \* scan_depth_count (--depth)

WORKER_COUNTS == {1, 2}     \* IMPORT_WORKERS

SITE_COUNTS == {0, 1}       \* the number of sites in a run's sites_list

THRESHOLDS == {0, 1, 2}     \* SITE_IMPORT_FAILURE_THRESHOLD

\* What the backend answers in a run: success, a transient and a permanent
\* 5xx, and a permanent 4xx.
ORCH_ENVS ==
    [listing : {[ok |-> FALSE, sources |-> {}]},
     responses : {<<r, Status(404)>> :
                    r \in {Status(200), Status(503), Status(501), Status(400)}}]

\* What a site's sitemap lists: nothing, two pages, or one page twice under
\* two spellings.
SITEMAPS ==
    {<<>>,
     <<Url(0, "a", FALSE), Url(0, "b", FALSE)>>,
     <<Url(0, "a", FALSE), Url(1, "a", TRUE)>>}

\* The times a run crawls at: the day a first entry is written, and a day
\* on which that entry has expired.
RUN_TIMES == {0, CACHE_EXPIRY_DAYS + 1}

CRAWLS == [now : RUN_TIMES, found : BOOLEAN, urls : SITEMAPS]

\* `import_executor is None`
Sequential == ~(config.IMPORT_WORKERS > 1 /\ ~config.dry_run_mode)

\* The record of a control-thread step: whether it called
\* rate_limiter.wait_if_needed and verify_recipe for a URL, whether it handed
\* a URL to import_recipe (directly or through the pool), and, if it did any
\* of these, the stop flag and abort_site as the step found them.
Event(op, waited, verified, submitted) ==
    LET acted == waited \/ verified \/ submitted
    IN  [op |-> op,
         waited |-> waited, verified |-> verified, submitted |-> submitted,
         kill_before |-> acted /\ kill_now,
         abort_before |-> acted /\ site.abort_site,
         url_key |-> EmptyUrl, result |-> "none"]

\* The record of one iteration of the candidate loop: the candidate's key
\* and what became of it: "skipped", "imported", "transient" or "permanent"
\* (the failure's kind), or "pending" (handed to the pool branch).
CandEvent(url_key, result, submitted) ==
    [Event("cand", result # "skipped", result # "skipped", submitted)
        EXCEPT !.url_key = url_key, !.result = result]

\* The kind of an outcome tuple.
ResultOf(outcome) ==
    IF outcome.imported THEN "imported"
    ELSE IF outcome.transient THEN "transient" ELSE "permanent"

Init ==
    /\ config \in
         {[DefaultConfig EXCEPT
             !.MAX_RETRY_ATTEMPTS = r, !.IMPORT_WORKERS = w,
             !.SITE_IMPORT_FAILURE_THRESHOLD = t, !.target_count = n,
             !.scan_depth_count = MaxDepth,
             !.dry_run_mode = d, !.MEALIE_ENABLED = m,
             !.IMPORT_PRECHECK_DUPLICATES = FALSE] :
            r \in 1..MaxRetry, w \in WORKER_COUNTS, t \in THRESHOLDS,
            n \in 1..MaxTarget, d \in BOOLEAN, m \in BOOLEAN}
    /\ storage = StorageManager(EmptyFiles)
    /\ disk = EmptyFiles
    /\ importer = ImportManager
    /\ kill_now = FALSE
    /\ pc = "start"
    /\ retry_pending = <<>>
    /\ sites_left \in SITE_COUNTS
    /\ candidates = <<>>
    /\ site = NoSite
    /\ pending_imports = {}
    /\ orphans = {}
    /\ called = {}
    /\ rate_limiter = RateLimiter
    /\ last = NoEvent

SetBundle(S) ==
    /\ SetWorld(S.W)
    /\ site' = S.site

\* GracefulKiller.exit_gracefully: SIGINT or SIGTERM arrives.
Signal ==
    /\ pc # "done"
    /\ ~kill_now
    /\ kill_now' = TRUE
    /\ UNCHANGED <<config, storage, disk, importer, called, rate_limiter, last, pc,
                   retry_pending, sites_left, candidates, site,
                   pending_imports, orphans>>

\* process_retry_queue up to the loop: the queue is copied into `pending`.
RunStart ==
    /\ pc = "start"
    /\ IF DOMAIN storage.retry_queue = {}
       THEN /\ retry_pending' = <<>>
            /\ pc' = "sites"
       ELSE /\ retry_pending' \in
                 Orders({[url |-> k, attempts |-> storage.retry_queue[k].attempts] :
                            k \in DOMAIN storage.retry_queue})
            /\ pc' = "retry"
    /\ last' = Event("step", FALSE, FALSE, FALSE)
    /\ UNCHANGED <<config, storage, disk, importer, called, rate_limiter, kill_now,
                   sites_left, candidates, site, pending_imports, orphans>>

\* process_retry_queue: one iteration of `for url, meta in pending`.
RetryStep ==
    /\ pc = "retry"
    /\ \E verdict \in VERDICTS, env \in ORCH_ENVS :
        LET entry  == Head(retry_pending)
            tried  == entry.attempts < config.MAX_RETRY_ATTEMPTS
            r      == import_recipe(importer, config, entry.url, env)
        IN  /\ SetBundle(RetryEntry(Bundle, entry, verdict, r.outcome))
            /\ importer' = IF tried /\ verdict = "accept" THEN r.imp ELSE importer
            /\ last' = Event("retry", tried, tried, tried /\ verdict = "accept")
    /\ retry_pending' = Tail(retry_pending)
    /\ pc' = IF Tail(retry_pending) = <<>> THEN "sites" ELSE "retry"
    /\ UNCHANGED <<config, called, rate_limiter, kill_now, sites_left, candidates,
                   pending_imports, orphans>>

\* run: `for site in iterator` up to the candidate loop; the end of the loop
\* and of run() when no site is left or the stop flag is set.
SiteBegin ==
    /\ pc = "sites"
    /\ IF sites_left = 0 \/ kill_now
       THEN /\ pc' = "done"
            /\ last' = Event("return", FALSE, FALSE, FALSE)
            /\ UNCHANGED <<storage, disk, sites_left, candidates, site>>
       ELSE \E net \in CRAWLS :
              LET r == get_urls_for_site(World, sites_left, net)
              IN  /\ SetWorld(r.W)
                  /\ sites_left' = sites_left - 1
                  /\ site' = NoSite
                  /\ IF r.urls = <<>>
                     THEN /\ pc' = "sites"
                          /\ candidates' = <<>>
                          /\ last' = Event("site_empty", FALSE, FALSE, FALSE)
                     ELSE /\ pc' = "cand"
                          /\ candidates' \in
                               Shuffles(Truncate(r.urls, config.scan_depth_count))
                          /\ last' = Event("step", FALSE, FALSE, FALSE)
    /\ UNCHANGED <<config, importer, called, rate_limiter, kill_now, retry_pending,
                   pending_imports, orphans>>

\* run: one iteration of `for candidate in candidates`, up to the point
\* where the pool branch may have to wait; the end of the loop.
CandStep ==
    /\ pc = "cand"
    /\ IF \/ candidates = <<>>
          \/ kill_now
          \/ site.abort_site
          \/ site.imported_count >= config.target_count
       THEN /\ pc' = "final_drain"
            /\ candidates' = <<>>
            /\ last' = Event("step", FALSE, FALSE, FALSE)
            /\ UNCHANGED <<storage, disk, importer, site>>
       ELSE LET url     == Head(candidates)
                url_key == UrlKey(url)
            IN  /\ candidates' = Tail(candidates)
                /\ IF AlreadyProcessed(storage, url_key)
                   THEN /\ pc' = "cand"
                        /\ last' = CandEvent(url_key, "skipped", FALSE)
                        /\ UNCHANGED <<storage, disk, importer, site>>
                   ELSE \E verdict \in VERDICTS :
                            CASE verdict = "accept" /\ Sequential ->
                                   \E env \in ORCH_ENVS :
                                     LET r == import_recipe(importer, config, url, env)
                                     IN  /\ SetBundle(SequentialImportResult(
                                                         Bundle, url_key, r.outcome))
                                         /\ importer' = r.imp
                                         /\ pc' = "cand"
                                         /\ last' = CandEvent(url_key, ResultOf(r.outcome), TRUE)
                              [] verdict = "accept" /\ ~Sequential ->
                                   /\ site' = [site EXCEPT !.url = url]
                                   /\ pc' = "gate"
                                   /\ last' = CandEvent(url_key, "pending", FALSE)
                                   /\ UNCHANGED <<storage, disk, importer>>
                              [] verdict = "transient" ->
                                   /\ SetWorld(add_retry(World, url_key, TRUE))
                                   /\ pc' = "cand"
                                   /\ last' = CandEvent(url_key, "transient", FALSE)
                                   /\ UNCHANGED <<importer, site>>
                              [] verdict = "reject" ->
                                   /\ SetWorld(add_reject(World, url_key))
                                   /\ pc' = "cand"
                                   /\ last' = CandEvent(url_key, "permanent", FALSE)
                                   /\ UNCHANGED <<importer, site>>
    /\ UNCHANGED <<config, called, rate_limiter, kill_now, retry_pending, sites_left,
                   pending_imports, orphans>>

\* drain_imports: the futures that are done are popped and handled.
Drain(order) ==
    /\ SetBundle([DrainSeq(Bundle, order) EXCEPT !.site.url = site.url])
    /\ pending_imports' = pending_imports \ DoneOf(pending_imports)

\* run, pool branch: the test of `while pending_imports and imported_count +
\* len(pending_imports) >= target_count`, and, when it fails, the rest of
\* the iteration: the break test, submit, drain_imports(block=False).
Gate ==
    /\ pc = "gate"
    /\ IF PoolFull(site.imported_count, Cardinality(pending_imports))
       THEN /\ pc' = "gate_wait"
            /\ last' = Event("step", FALSE, FALSE, FALSE)
            /\ UNCHANGED <<storage, disk, site, pending_imports>>
       ELSE IF kill_now \/ site.imported_count >= config.target_count
       THEN /\ pc' = "final_drain"
            /\ candidates' = <<>>
            /\ site' = [site EXCEPT !.url = EmptyUrl]
            /\ last' = Event("step", FALSE, FALSE, FALSE)
            /\ UNCHANGED <<storage, disk, pending_imports>>
       ELSE \E order \in Orders(DoneOf(pending_imports)) :
              LET S == DrainSeq(Bundle, order)
              IN  /\ SetBundle([S EXCEPT !.site.url = EmptyUrl])
                  /\ pending_imports' =
                        (pending_imports \ DoneOf(pending_imports))
                            \cup {[url |-> site.url, st |-> "running",
                                   outcome |-> Success]}
                  /\ pc' = "cand"
                  /\ last' = Event("submit", FALSE, FALSE, TRUE)
    /\ IF pc' = "final_drain" THEN TRUE ELSE UNCHANGED candidates
    /\ UNCHANGED <<config, importer, called, rate_limiter, kill_now, retry_pending,
                   sites_left, orphans>>

\* run, pool branch: drain_imports(block=True) returns once a future is
\* done; then `if killer.kill_now: break` and the break test after the loop.
GateWait ==
    /\ pc = "gate_wait"
    /\ DoneOf(pending_imports) # {}
    /\ \E order \in Orders(DoneOf(pending_imports)) :
         IF kill_now
         THEN /\ SetBundle([DrainSeq(Bundle, order) EXCEPT !.site.url = EmptyUrl])
              /\ pending_imports' = pending_imports \ DoneOf(pending_imports)
              /\ pc' = "final_drain"
              /\ candidates' = <<>>
         ELSE /\ Drain(order)
              /\ pc' = "gate"
              /\ UNCHANGED candidates
    /\ last' = Event("step", FALSE, FALSE, FALSE)
    /\ UNCHANGED <<config, importer, called, rate_limiter, kill_now, retry_pending,
                   sites_left, orphans>>

\* run: the test of `while pending_imports and not killer.kill_now and
\* imported_count < target_count and not abort_site`; when it fails the
\* futures left are cancelled and popped and the store is flushed.  The
\* executor's queue is not modelled: of the futures not done, those a worker
\* had started (`started`) go on running, the others are cancelled.
FinalDrain ==
    /\ pc = "final_drain"
    /\ IF /\ pending_imports # {}
          /\ ~kill_now
          /\ site.imported_count < config.target_count
          /\ ~site.abort_site
       THEN /\ pc' = "final_wait"
            /\ last' = Event("step", FALSE, FALSE, FALSE)
            /\ UNCHANGED <<storage, disk, site, pending_imports, orphans>>
       ELSE /\ pending_imports' = {}
            /\ \E started \in SUBSET {f.url : f \in pending_imports \ DoneOf(pending_imports)} :
                 orphans' = orphans \cup started
            /\ SetWorld(flush_all(World))
            /\ site' = NoSite
            /\ pc' = "sites"
            /\ last' = Event("site_end", FALSE, FALSE, FALSE)
    /\ UNCHANGED <<config, importer, called, rate_limiter, kill_now, retry_pending,
                   sites_left, candidates>>

\* run: drain_imports(block=True) of the final loop.
FinalWait ==
    /\ pc = "final_wait"
    /\ DoneOf(pending_imports) # {}
    /\ \E order \in Orders(DoneOf(pending_imports)) : Drain(order)
    /\ pc' = "final_drain"
    /\ last' = Event("step", FALSE, FALSE, FALSE)
    /\ UNCHANGED <<config, importer, called, rate_limiter, kill_now, retry_pending,
                   sites_left, candidates, orphans>>

\* The pool: a worker's import_recipe(url) returns.
WorkerFinish ==
    /\ \E f \in pending_imports, env \in ORCH_ENVS :
        LET r == import_recipe(importer, config, f.url, env)
        IN  /\ f.st = "running"
            /\ importer' = r.imp
            /\ pending_imports' =
                 (pending_imports \ {f})
                    \cup {[f EXCEPT !.st = "done", !.outcome = r.outcome]}
    /\ UNCHANGED <<config, storage, disk, called, rate_limiter, last, kill_now, pc,
                   retry_pending, sites_left, candidates, site, orphans>>

\* The pool: an import that its site no longer waits for returns.
OrphanFinish ==
    /\ \E url \in orphans, env \in ORCH_ENVS :
        /\ importer' = import_recipe(importer, config, url, env).imp
        /\ orphans' = orphans \ {url}
    /\ UNCHANGED <<config, storage, disk, called, rate_limiter, last, kill_now, pc,
                   retry_pending, sites_left, candidates, site,
                   pending_imports>>

\* The process has ended (its pool threads with it); the next run starts:
\* main() to the construction of the store, the killer and the importer.
NewRun ==
    /\ pc = "done"
    /\ storage' = StorageManager(disk)
    /\ importer' = ImportManager
    /\ kill_now' = FALSE
    /\ pc' = "start"
    /\ sites_left' \in SITE_COUNTS
    /\ orphans' = {}
    /\ last' = NoEvent
    /\ UNCHANGED <<config, disk, called, rate_limiter, retry_pending, candidates, site,
                   pending_imports>>

Next ==
    \/ Signal
    \/ RunStart
    \/ RetryStep
    \/ SiteBegin
    \/ CandStep
    \/ Gate
    \/ GateWait
    \/ FinalDrain
    \/ FinalWait
    \/ WorkerFinish
    \/ OrphanFinish
    \/ NewRun

Spec == Init /\ [][Next]_vars

(***************************************************************************)
(* SpecPool: run() with parallel import enabled (IMPORT_WORKERS = 2, live  *)
(* mode, backend enabled).                                                 *)
(***************************************************************************)
PoolInit ==
    /\ config \in
         {[DefaultConfig EXCEPT
             !.MAX_RETRY_ATTEMPTS = 2, !.IMPORT_WORKERS = 2,
             !.SITE_IMPORT_FAILURE_THRESHOLD = t, !.target_count = n,
             !.scan_depth_count = 2,
             !.IMPORT_PRECHECK_DUPLICATES = FALSE] :
            t \in {0, 1}, n \in {1, 2}}
    /\ storage = StorageManager(EmptyFiles)
    /\ disk = EmptyFiles
    /\ importer = ImportManager
    /\ kill_now = FALSE
    /\ pc = "start"
    /\ retry_pending = <<>>
    /\ sites_left \in SITE_COUNTS
    /\ candidates = <<>>
    /\ site = NoSite
    /\ pending_imports = {}
    /\ orphans = {}
    /\ called = {}
    /\ rate_limiter = RateLimiter
    /\ last = NoEvent

SpecPool == PoolInit /\ [][Next]_vars

(***************************************************************************)
(* SpecThreads: one site processed with parallel import, at the grain of   *)
(* the threads' steps.  The control thread runs the candidate loop; each   *)
(* future runs import_recipe in a pool worker: the duplicate precheck with *)
(* its lazy load of the source index, rate_limiter.wait_if_needed for the  *)
(* backend, the POSTs.  A future is "queued", "listing" (its worker waits  *)
(* for the recipe listing), "prechecked", "in_wait" (its worker is inside  *)
(* wait_if_needed), "posting" or "done".  `called` holds the URLs whose    *)
(* import requested the listing.                                           *)
(***************************************************************************)
MaxClock == 1       \* time.time() ranges over 0..MaxClock

\* The times time.time() may return: none before a time already recorded.
Clock ==
    {t \in 0..MaxClock :
        \A d \in DOMAIN rate_limiter.last_request : rate_limiter.last_request[d] <= t}

THREAD_CANDIDATES == <<Url(0, "a", FALSE), Url(0, "b", FALSE)>>

THREAD_RESPONSES == {<<Status(200), Status(404)>>, <<Status(503), Status(404)>>}

ThreadsInit ==
    /\ config = [DefaultConfig EXCEPT !.IMPORT_WORKERS = 2]
    /\ storage = StorageManager(EmptyFiles)
    /\ disk = EmptyFiles
    /\ importer = ImportManager
    /\ kill_now = FALSE
    /\ pc = "cand"
    /\ retry_pending = <<>>
    /\ sites_left = 0
    /\ candidates = THREAD_CANDIDATES
    /\ site = NoSite
    /\ pending_imports = {}
    /\ orphans = {}
    /\ called = {}
    /\ rate_limiter = RateLimiter
    /\ last = NoEvent

\* The futures whose import_recipe a worker is executing.
Executing == {f \in pending_imports : f.st \notin {"queued", "done"}}

SetFuture(f, st, outcome) ==
    pending_imports' =
        (pending_imports \ {f}) \cup {[f EXCEPT !.st = st, !.outcome = outcome]}

\* Control thread: the candidate loop up to the sleep of
\* rate_limiter.wait_if_needed(url); the end of the loop.
ControlCandidate ==
    /\ pc = "cand"
    /\ IF candidates = <<>>
       THEN /\ pc' = "final_drain"
            /\ last' = [op |-> "loop_end", thread |-> "control"]
            /\ UNCHANGED <<candidates, site, rate_limiter>>
       ELSE /\ candidates' = Tail(candidates)
            /\ IF AlreadyProcessed(storage, UrlKey(Head(candidates)))
               THEN /\ last' = [op |-> "skip", thread |-> "control"]
                    /\ UNCHANGED <<pc, site, rate_limiter>>
               ELSE \E robots_delay \in {NoDelay, 0}, now \in Clock :
                      /\ rate_limiter' =
                            WaitBegin(rate_limiter, "site", robots_delay, now).rl
                      /\ site' = [site EXCEPT !.url = Head(candidates)]
                      /\ pc' = "in_wait"
                      /\ last' = [op |-> "wait_begin", thread |-> "control"]
    /\ UNCHANGED <<config, storage, disk, importer, called, kill_now,
                   retry_pending, sites_left, pending_imports, orphans>>

\* Control thread: wait_if_needed records the time and returns; verify_recipe;
\* for a recipe the import is submitted to the pool and the futures that are
\* done are drained (target_count is above the number of candidates: the
\* loop never waits for the pool).
ControlVerify ==
    /\ pc = "in_wait"
    /\ \E now \in Clock : rate_limiter' = WaitEnd(rate_limiter, "site", now)
    /\ \E verdict \in VERDICTS :
         CASE verdict = "accept" ->
                \E order \in Orders(DoneOf(pending_imports)) :
                  /\ SetBundle([DrainSeq(Bundle, order) EXCEPT !.site.url = EmptyUrl])
                  /\ pending_imports' =
                        (pending_imports \ DoneOf(pending_imports))
                            \cup {[url |-> site.url, st |-> "queued",
                                   outcome |-> Success]}
           [] verdict = "transient" ->
                /\ SetWorld(add_retry(World, UrlKey(site.url), TRUE))
                /\ site' = [site EXCEPT !.url = EmptyUrl]
                /\ UNCHANGED pending_imports
           [] verdict = "reject" ->
                /\ SetWorld(add_reject(World, UrlKey(site.url)))
                /\ site' = [site EXCEPT !.url = EmptyUrl]
                /\ UNCHANGED pending_imports
    /\ pc' = "cand"
    /\ last' = [op |-> "wait_end", thread |-> "control"]
    /\ UNCHANGED <<config, importer, called, kill_now, retry_pending,
                   sites_left, candidates, orphans>>

\* Control thread: the final loop, one drain_imports(block=True) or its end
\* with flush_all.
ControlFinal ==
    /\ pc = "final_drain"
    /\ IF pending_imports # {} /\ ~site.abort_site
       THEN /\ DoneOf(pending_imports) # {}
            /\ \E order \in Orders(DoneOf(pending_imports)) : Drain(order)
            /\ pc' = "final_drain"
            /\ last' = [op |-> "drain", thread |-> "control"]
       ELSE /\ SetWorld(flush_all(World))
            /\ site' = NoSite
            /\ pending_imports' = {}
            /\ pc' = "done"
            /\ last' = [op |-> "site_end", thread |-> "control"]
    /\ UNCHANGED <<config, importer, called, rate_limiter, kill_now,
                   retry_pending, sites_left, candidates, orphans>>

\* Worker: import_recipe starts; _precheck_duplicate_source calls
\* _load_existing_sources, which tests the two flags and, with neither set,
\* sends the GET of the recipe listing.
WorkerStart ==
    /\ \E f \in pending_imports :
        /\ f.st = "queued"
        /\ Cardinality(Executing) < config.IMPORT_WORKERS
        /\ IF ListingRequested(importer, config)
           THEN /\ SetFuture(f, "listing", f.outcome)
                /\ called' = called \cup {f.url}
           ELSE /\ IF _precheck_duplicate_source(importer, config, f.url)
                   THEN SetFuture(f, "done", Success)
                   ELSE SetFuture(f, "prechecked", f.outcome)
                /\ UNCHANGED called
        /\ last' = [op |-> "import_start", thread |-> f.url.host]
    /\ UNCHANGED <<config, storage, disk, importer, rate_limiter, kill_now, pc,
                   retry_pending, sites_left, candidates, site, orphans>>

\* Worker: the listing is answered; _load_existing_sources sets the index
\* and its flag, and _precheck_duplicate_source looks the URL up.
WorkerListed ==
    /\ \E f \in pending_imports, listing \in LISTINGS :
        LET imp == _load_existing_sources(
                       [importer EXCEPT !._source_index_loaded = FALSE,
                                        !._source_index_failed = FALSE],
                       listing)
            loaded == [imp EXCEPT
                          !._source_index_loaded = @ \/ importer._source_index_loaded,
                          !._source_index_failed = @ \/ importer._source_index_failed]
        IN  /\ f.st = "listing"
            /\ importer' = loaded
            /\ IF _precheck_duplicate_source(loaded, config, f.url)
               THEN SetFuture(f, "done", Success)
               ELSE SetFuture(f, "prechecked", f.outcome)
            /\ last' = [op |-> "listed", thread |-> f.url.host]
    /\ UNCHANGED <<config, storage, disk, rate_limiter, called, kill_now, pc,
                   retry_pending, sites_left, candidates, site, orphans>>

\* Worker: `self.rate_limiter.wait_if_needed(MEALIE_URL)` up to its sleep,
\* or, when get_crawl_delay finds no delay memoized for the domain, up to
\* its request of robots.txt.
WorkerWaitBegin ==
    /\ \E f \in pending_imports, now \in Clock :
        /\ f.st = "prechecked"
        /\ IF "mealie" \in DOMAIN rate_limiter.crawl_delays
           THEN /\ rate_limiter' = WaitBegin(rate_limiter, "mealie", NoDelay, now).rl
                /\ SetFuture(f, "in_wait", f.outcome)
           ELSE /\ rate_limiter' = RobotsRequested(rate_limiter, "mealie")
                /\ SetFuture(f, "robots", f.outcome)
        /\ last' = [op |-> "wait_begin", thread |-> f.url.host]
    /\ UNCHANGED <<config, storage, disk, importer, called, kill_now, pc,
                   retry_pending, sites_left, candidates, site, orphans>>

\* Worker: robots.txt is answered; get_crawl_delay stores the delay
\* (`self.crawl_delays[domain] = delay`) and wait_if_needed goes on to its
\* sleep.
WorkerRobots ==
    /\ \E f \in pending_imports, robots_delay \in {NoDelay, 0} :
        /\ f.st = "robots"
        /\ rate_limiter' =
              [rate_limiter EXCEPT !.crawl_delays =
                  DictPut(@, "mealie", IF robots_delay = NoDelay
                                       THEN DEFAULT_CRAWL_DELAY ELSE robots_delay)]
        /\ SetFuture(f, "in_wait", f.outcome)
        /\ last' = [op |-> "robots", thread |-> f.url.host]
    /\ UNCHANGED <<config, storage, disk, importer, called, kill_now, pc,
                   retry_pending, sites_left, candidates, site, orphans>>

\* Worker: wait_if_needed records the time and returns.
WorkerWaitEnd ==
    /\ \E f \in pending_imports, now \in Clock :
        /\ f.st = "in_wait"
        /\ rate_limiter' = WaitEnd(rate_limiter, "mealie", now)
        /\ SetFuture(f, "posting", f.outcome)
        /\ last' = [op |-> "wait_end", thread |-> f.url.host]
    /\ UNCHANGED <<config, storage, disk, importer, called, kill_now, pc,
                   retry_pending, sites_left, candidates, site, orphans>>

\* Worker: the POSTs over the candidate paths; import_recipe returns.
WorkerPost ==
    /\ \E f \in pending_imports, responses \in THREAD_RESPONSES :
        LET r == PostLoop(importer, f.url, CandidatePaths(importer), responses,
                          NoError, <<>>)
        IN  /\ f.st = "posting"
            /\ importer' = r.imp
            /\ SetFuture(f, "done", r.outcome)
            /\ last' = [op |-> "import_end", thread |-> f.url.host]
    /\ UNCHANGED <<config, storage, disk, rate_limiter, called, kill_now, pc,
                   retry_pending, sites_left, candidates, site, orphans>>

ThreadsNext ==
    \/ ControlCandidate
    \/ ControlVerify
    \/ ControlFinal
    \/ WorkerStart
    \/ WorkerListed
    \/ WorkerWaitBegin
    \/ WorkerRobots
    \/ WorkerWaitEnd
    \/ WorkerPost

SpecThreads == ThreadsInit /\ [][ThreadsNext]_vars

(***************************************************************************)
(* The start of run(): validate_config and load_sites_from_source (app.py). *)
(* A sites file is "missing", "corrupt" (reading or parsing it raises),    *)
(* "shape" (JSON that is neither a list nor an object with "sites") or     *)
(* "list"; the SITES variable may also hold a comma-separated list.        *)
(***************************************************************************)
\* validate_config: the warnings it logs; it returns None in every case.
validate_config(cfg) ==
    (IF ~cfg.MEALIE_ENABLED /\ ~cfg.DRY_RUN THEN {"mealie_disabled"} ELSE {})
        \cup (IF cfg.MEALIE_ENABLED /\ cfg.MEALIE_API_TOKEN = "your-token"
              THEN {"token_not_configured"} ELSE {})

\* What the start of run() comes to: sys.exit(1), or the number of sites.
SitesLoaded(exits, sites) == [exit |-> exits, sites |-> sites]

\* `json.load(handle)` and _parse_sites_json for a file that exists and
\* can be parsed.
_parse_sites_json(file) == IF file = "list" THEN 1 ELSE 0

\* A start that carries on with the default sites after any file error.
load_sites_from_source_lenient(cli, env, sitesfile) ==
    IF cli \in {"shape", "list"} THEN SitesLoaded(FALSE, _parse_sites_json(cli))
    ELSE IF env \in {"shape", "list"} THEN SitesLoaded(FALSE, _parse_sites_json(env))
    ELSE IF env = "comma" THEN SitesLoaded(FALSE, 1)
    ELSE IF sitesfile \in {"shape", "list"}
    THEN SitesLoaded(FALSE, _parse_sites_json(sitesfile))
    ELSE SitesLoaded(FALSE, 1)

\* load_sites_from_source(args.sites): the file of --sites, then SITES (a
\* file, or a list), then sites.json, then DEFAULT_SITES.
load_sites_from_source(cli, env, sitesfile) ==
    IF cli # "unset"
    THEN IF cli \in {"missing", "corrupt"} THEN SitesLoaded(TRUE, 0)
         ELSE SitesLoaded(FALSE, _parse_sites_json(cli))
    ELSE IF env # "unset"
    THEN IF env = "comma" THEN SitesLoaded(FALSE, 1)
         ELSE IF env = "corrupt" THEN SitesLoaded(TRUE, 0)
         ELSE SitesLoaded(FALSE, _parse_sites_json(env))
    ELSE IF sitesfile \in {"shape", "list"}
    THEN SitesLoaded(FALSE, _parse_sites_json(sitesfile))
    ELSE SitesLoaded(FALSE, 1)

(***************************************************************************)
(* SpecStartup: run() from its first line, with one import worker, over    *)
(* every configuration of the token and of the three sources of sites.     *)
(***************************************************************************)
CLI_SITES == {"unset", "missing", "corrupt", "shape", "list"}

ENV_SITES == {"unset", "corrupt", "shape", "list", "comma"}

FILE_SITES == {"missing", "corrupt", "shape", "list"}

\* The retry queue a run may find: empty, one URL that failed once, or two
\* URLs of which one has used up its attempts.
STARTUP_FILES ==
    {EmptyFiles,
     [EmptyFiles EXCEPT !.retry_queue =
         DictPut(EmptyDict, Url(0, "b", FALSE), [attempts |-> 1])],
     [EmptyFiles EXCEPT !.retry_queue =
         DictPut(DictPut(EmptyDict, Url(0, "b", FALSE), [attempts |-> 2]),
                 Url(0, "a", FALSE), [attempts |-> 3])]}

StartupInit ==
    /\ config \in
         {[MEALIE_API_TOKEN |-> t, DRY_RUN |-> FALSE,
           cli |-> c, env |-> e, sitesfile |-> f]
             @@ [DefaultConfig EXCEPT !.MEALIE_ENABLED = m] :
            t \in {"your-token", "secret"}, m \in BOOLEAN,
            c \in CLI_SITES, e \in ENV_SITES, f \in FILE_SITES}
    /\ \E files \in STARTUP_FILES :
          /\ storage = StorageManager(files)
          /\ disk = files
    /\ importer = ImportManager
    /\ kill_now = FALSE
    /\ pc = "boot"
    /\ retry_pending = <<>>
    /\ sites_left = 0
    /\ candidates = <<>>
    /\ site = NoSite
    /\ pending_imports = {}
    /\ orphans = {}
    /\ called = {}
    /\ rate_limiter = RateLimiter
    /\ last = NoEvent

\* run: `validate_config(); sites_list = load_sites_from_source(args.sites)`
Startup ==
    /\ pc = "boot"
    /\ LET r == load_sites_from_source(config.cli, config.env, config.sitesfile)
       IN  /\ pc' = IF r.exit THEN "exited" ELSE "start"
           /\ sites_left' = r.sites
           /\ last' = [Event("startup", FALSE, FALSE, FALSE) EXCEPT
                          !.result = IF r.exit THEN "exit" ELSE "run"]
                      @@ [warnings |-> validate_config(config)]
    /\ UNCHANGED <<config, storage, disk, importer, called, rate_limiter, kill_now,
                   retry_pending, candidates, site, pending_imports, orphans>>

StartupNext ==
    \/ Startup
    \/ RunStart
    \/ RetryStep
    \/ SiteBegin
    \/ CandStep
    \/ FinalDrain

SpecStartup == StartupInit /\ [][StartupNext]_vars

(***************************************************************************)
(* SpecRetry: runs that follow one another without a stop signal, in       *)
(* sequential live mode, from a store whose retry_queue file holds entries *)
(* of earlier runs.  Every run that is started goes on to its end, and a   *)
(* next run is started.                                                    *)
(***************************************************************************)
\* The retry_queue.json a run finds: page a queued, or both pages.
QUEUED_FILES ==
    {DictPut(EmptyDict, UrlKey(Url(0, "a", FALSE)), [attempts |-> n]) :
        n \in 0..1}
        \cup {DictPut(DictPut(EmptyDict, UrlKey(Url(0, "a", FALSE)), [attempts |-> 1]),
                      UrlKey(Url(0, "b", FALSE)), [attempts |-> 0])}

RetryInit ==
    /\ config \in
         {[DefaultConfig EXCEPT
             !.MAX_RETRY_ATTEMPTS = r, !.target_count = MaxTarget,
             !.scan_depth_count = MaxDepth,
             !.IMPORT_PRECHECK_DUPLICATES = FALSE] : r \in 1..MaxRetry}
    /\ disk \in {[EmptyFiles EXCEPT !.retry_queue = q] : q \in QUEUED_FILES}
    /\ storage = StorageManager(disk)
    /\ importer = ImportManager
    /\ kill_now = FALSE
    /\ pc = "start"
    /\ retry_pending = <<>>
    /\ sites_left \in SITE_COUNTS
    /\ candidates = <<>>
    /\ site = NoSite
    /\ pending_imports = {}
    /\ orphans = {}
    /\ called = {}
    /\ rate_limiter = RateLimiter
    /\ last = NoEvent

RetryNext ==
    \/ RunStart
    \/ RetryStep
    \/ SiteBegin
    \/ CandStep
    \/ FinalDrain
    \/ NewRun

SpecRetry == RetryInit /\ [][RetryNext]_vars /\ WF_vars(RetryNext)

(***************************************************************************)
(* SpecDryRun: a run in dry-run mode (--dry-run, backend enabled) from an  *)
(* empty store, which a stop signal may end, and after it a live run on    *)
(* the same data directory.                                                *)
(***************************************************************************)
DryRunInit ==
    /\ config \in
         {[DefaultConfig EXCEPT
             !.MAX_RETRY_ATTEMPTS = r, !.target_count = n,
             !.scan_depth_count = MaxDepth, !.dry_run_mode = TRUE,
             !.IMPORT_PRECHECK_DUPLICATES = FALSE] :
            r \in 1..MaxRetry, n \in 1..MaxTarget}
    /\ storage = StorageManager(EmptyFiles)
    /\ disk = EmptyFiles
    /\ importer = ImportManager
    /\ kill_now = FALSE
    /\ pc = "start"
    /\ retry_pending = <<>>
    /\ sites_left \in SITE_COUNTS
    /\ candidates = <<>>
    /\ site = NoSite
    /\ pending_imports = {}
    /\ orphans = {}
    /\ called = {}
    /\ rate_limiter = RateLimiter
    /\ last = NoEvent

\* The dry run has ended; the program is started again without --dry-run:
\* main() to the construction of the store, the killer and the importer.
LiveRun ==
    /\ pc = "done"
    /\ config.dry_run_mode
    /\ config' = [config EXCEPT !.dry_run_mode = FALSE]
    /\ storage' = StorageManager(disk)
    /\ importer' = ImportManager
    /\ kill_now' = FALSE
    /\ pc' = "start"
    /\ sites_left' \in SITE_COUNTS
    /\ last' = NoEvent
    /\ UNCHANGED <<disk, called, rate_limiter, retry_pending, candidates, site,
                   pending_imports, orphans>>

DryRunNext ==
    \/ Signal
    \/ RunStart
    \/ RetryStep
    \/ SiteBegin
    \/ CandStep
    \/ FinalDrain
    \/ LiveRun

SpecDryRun == DryRunInit /\ [][DryRunNext]_vars

(***************************************************************************)
(* SpecLimiter: one thread calling wait_if_needed for the URLs of two      *)
(* domains, at arbitrary times.  Times are in seconds.                     *)
(***************************************************************************)
MaxTime == 6        \* wait_if_needed is called while it returns by MaxTime

LIMITER_DOMAINS == {"a.example", "b.example"}

\* Lines of a robots.txt: another directive, a Crawl-delay that does not
\* parse, Crawl-delay: 4 and Crawl-delay: 0.
OtherLine == [crawl_delay |-> FALSE, parsable |-> TRUE, value |-> 0]

BadDelayLine == [crawl_delay |-> TRUE, parsable |-> FALSE, value |-> 0]

DelayLine(value) == [crawl_delay |-> TRUE, parsable |-> TRUE, value |-> value]

\* What the request of robots.txt is answered: an exception, a 404, a 200
\* with some lines.
LIMITER_ROBOTS ==
    {[response |-> r, lines |-> <<>>] : r \in {Raised("Timeout"), Status(404)}}
        \cup {[response |-> Status(200), lines |-> lines] :
                 lines \in {<<>>, <<OtherLine, BadDelayLine>>,
                            <<BadDelayLine, DelayLine(4)>>,
                            <<OtherLine, DelayLine(0)>>,
                            <<DelayLine(4), DelayLine(0)>>}}

\* No request of robots.txt: the delay of the domain is memoized.
NoRobots == [response |-> Raised("not requested"), lines |-> <<>>]

LimiterInit ==
    /\ config = DefaultConfig
    /\ storage = StorageManager(EmptyFiles)
    /\ disk = EmptyFiles
    /\ importer = ImportManager
    /\ called = {}
    /\ rate_limiter = RateLimiter
    /\ last = NoEvent
    /\ Idle

\* The time the last call returned at
LimiterClock == IF last.op = "wait_if_needed" THEN last.returned ELSE 0

\* wait_if_needed(url): the call comes `gap` seconds after the last return.
\* Only the jitter values whose sleep is a whole number of seconds are
\* drawn.
WaitCall ==
    /\ \E domain \in LIMITER_DOMAINS, gap \in 0..MaxTime, jitter \in JITTERS,
          lag \in 0..1 :
        \E robots \in IF domain \in DOMAIN rate_limiter.crawl_delays
                       THEN {NoRobots} ELSE LIMITER_ROBOTS :
          LET now == LimiterClock + gap
              r   == wait_if_needed(rate_limiter, domain, robots, now, jitter, lag)
          IN  /\ now + r.sleep_time + lag <= MaxTime
              /\ r.slept => (r.sleep_time * 4
                               = (r.delay - (now - rate_limiter.last_request[domain]))
                                    * jitter)
              /\ rate_limiter' = r.rl
              /\ last' = [op |-> "wait_if_needed", domain |-> domain,
                          robots |-> robots, before |-> rate_limiter,
                          now |-> now, jitter |-> jitter, delay |-> r.delay,
                          slept |-> r.slept, sleep_time |-> r.sleep_time,
                          returned |-> now + r.sleep_time + lag]
    /\ UNCHANGED <<config, storage, disk, importer, called, orch>>

LimiterNext == WaitCall

SpecLimiter == LimiterInit /\ [][LimiterNext]_vars

(***************************************************************************)
(* SpecCrawl: get_urls_for_site called for one site at arbitrary times     *)
(* against an arbitrary network, with and without force_refresh.           *)
(***************************************************************************)
\* The days get_urls_for_site is called on: the day an entry is first
\* written, the last day that entry is valid, and the day it has expired.
CRAWL_TIMES == {0, CACHE_EXPIRY_DAYS, CACHE_EXPIRY_DAYS + 1}

\* What fetch_sitemap_urls returns: nothing or two pages.
CRAWL_SITEMAPS == {<<>>, <<Url(0, "a", FALSE), Url(0, "b", FALSE)>>}

\* The clock and the network of one call; without a sitemap nothing is fetched.
CRAWL_NETS ==
    {net \in [now : CRAWL_TIMES, found : BOOLEAN, urls : CRAWL_SITEMAPS] :
        ~net.found => net.urls = <<>>}

CrawlInit ==
    /\ config \in {[DefaultConfig EXCEPT !.force_refresh = f] : f \in BOOLEAN}
    /\ storage = StorageManager(EmptyFiles)
    /\ disk = EmptyFiles
    /\ importer = ImportManager
    /\ called = {}
    /\ rate_limiter = RateLimiter
    /\ last = NoEvent
    /\ Idle

\* A call of get_urls_for_site(site, force_refresh).  `had` is the
\* timestamp of the site's cache entry before the call, -1 without one.
CrawlCall ==
    \E net \in CRAWL_NETS :
        LET r == get_urls_for_site(World, 1, net)
        IN  /\ SetWorld(r.W)
            /\ last' = [op |-> "get_urls_for_site", now |-> net.now,
                        found |-> net.found, fetched |-> net.urls,
                        had |-> IF 1 \in DOMAIN storage.sitemap_cache
                                THEN storage.sitemap_cache[1].timestamp ELSE -1,
                        urls |-> r.urls, http |-> r.http]
            /\ UNCHANGED <<config, importer, called, rate_limiter, orch>>

CrawlNext == CrawlCall

SpecCrawl == CrawlInit /\ [][CrawlNext]_vars

(***************************************************************************)
(* SitemapCrawler.find_sitemap and fetch_sitemap_urls (crawler.py).  A     *)
(* sitemap is named by the last part of its URL.  A call's value has a     *)
(* field `raised`: whether the call ends by raising instead of returning.  *)
(***************************************************************************)
\* The well-known paths find_sitemap probes, in its order.
WELL_KNOWN_SITEMAPS ==
    <<"sitemap_index.xml", "sitemap.xml", "wp-sitemap.xml", "post-sitemap.xml",
      "recipe-sitemap.xml">>

\* find_sitemap, the robots.txt step: the value of the first "Sitemap:" line
\* of a 200 answer ("None" when there is no such line; "" when the line has
\* no value), "None" for any other answer and for an exception.
RobotsDirective(robots) ==
    IF robots.response = Status(200) THEN robots.directive ELSE "None"

\* find_sitemap, one well-known path: HEAD, and a streamed GET after a 405
\* or 501; an exception of either is passed over.  TRUE when a 200 is found.
ProbeFinds(probe) ==
    IF probe.head.kind # "status" THEN FALSE
    ELSE IF probe.head.status = 200 THEN TRUE
    ELSE IF probe.head.status \in {405, 501}
    THEN probe.get = Status(200)
    ELSE FALSE

\* find_sitemap, the loop over the well-known paths from the i-th on.
RECURSIVE ProbeLoop(_, _)
ProbeLoop(probes, i) ==
    IF i > Len(WELL_KNOWN_SITEMAPS) THEN "None"
    ELSE IF ProbeFinds(probes[i]) THEN WELL_KNOWN_SITEMAPS[i]
    ELSE ProbeLoop(probes, i + 1)

\* SitemapCrawler.find_sitemap(base_url): the sitemap found, "None" for None.
find_sitemap(robots, probes) ==
    IF RobotsDirective(robots) # "None"
    THEN [sitemap_url |-> RobotsDirective(robots), raised |-> FALSE]
    ELSE [sitemap_url |-> ProbeLoop(probes, 1), raised |-> FALSE]

\* `"post" in s or "recipe" in s`
IsPostOrRecipe(name) == name \in {"post-sitemap.xml", "recipe-sitemap.xml"}

\* Recursion targets that are never filtered.
Targets_unfiltered(sub_maps) == sub_maps

\* fetch_sitemap_urls, the recursion targets of an index before truncation
Targets(sub_maps) ==
    IF SelectSeq(sub_maps, IsPostOrRecipe) = <<>> THEN sub_maps
    ELSE SelectSeq(sub_maps, IsPostOrRecipe)

\* `loc.startswith("http://") or loc.startswith("https://")`
IsHttpLoc(loc) == loc.abs /\ ~loc.upper

\* What session.get answers for a sitemap URL the site does not have.
NoDocument ==
    [response |-> Status(404), shape |-> "other", sub_maps |-> <<>>, locs |-> <<>>]

DocumentAt(web, url) == IF url \in DOMAIN web THEN web[url] ELSE NoDocument

\* The value of a fetch; requests lists the URLs session.get was called
\* with, in order.
Fetched(urls, requests, raised) ==
    [urls |-> urls, requests |-> requests, raised |-> raised]

RECURSIVE FetchBody(_, _, _)
RECURSIVE FetchTargets(_, _, _)
RECURSIVE fetch_sitemap_urls(_, _, _)

\* fetch_sitemap_urls without its except clause.
fetch_sitemap_urls_uncaught(web, url, depth) ==
    IF depth > 2 THEN Fetched(<<>>, <<>>, FALSE) ELSE FetchBody(web, url, depth)

\* A fetch_sitemap_urls that goes one level deeper.
fetch_sitemap_urls_deeper(web, url, depth) ==
    IF depth > 3 THEN Fetched(<<>>, <<>>, FALSE)
    ELSE LET body == FetchBody(web, url, depth)
         IN  IF body.raised THEN Fetched(<<>>, body.requests, FALSE) ELSE body

\* SitemapCrawler.fetch_sitemap_urls(url, depth): the depth guard, and the
\* except clause around the body.
fetch_sitemap_urls(web, url, depth) ==
    IF depth > 2 THEN Fetched(<<>>, <<>>, FALSE)
    ELSE LET body == FetchBody(web, url, depth)
         IN  IF body.raised THEN Fetched(<<>>, body.requests, FALSE) ELSE body

\* `for sub_map in targets[:3]: all_urls.extend(self.fetch_sitemap_urls(...))`
FetchTargets(web, targets, depth) ==
    IF targets = <<>> THEN Fetched(<<>>, <<>>, FALSE)
    ELSE LET first == fetch_sitemap_urls(web, Head(targets), depth)
         IN  IF first.raised THEN first
             ELSE LET rest == FetchTargets(web, Tail(targets), depth)
                  IN  Fetched(first.urls \o rest.urls,
                              first.requests \o rest.requests, rest.raised)

\* The try block of fetch_sitemap_urls.  A document is what session.get
\* answers and, for a 200, its shape: "index" (it has <sitemap> elements,
\* whose <loc> are sub_maps), "urlset" (it has <url> elements, whose <loc>
\* are locs), "other", or "broken" (parsing it raises).
FetchBody(web, url, depth) ==
    LET doc == DocumentAt(web, url)
    IN  IF doc.response.kind # "status" THEN Fetched(<<>>, <<url>>, TRUE)
        ELSE IF doc.response.status # 200 THEN Fetched(<<>>, <<url>>, FALSE)
        ELSE IF doc.shape = "broken" THEN Fetched(<<>>, <<url>>, TRUE)
        ELSE IF doc.shape = "index"
        THEN LET targets == Targets(doc.sub_maps)
                 subs == FetchTargets(web,
                                      SubSeq(targets, 1,
                                             IF Len(targets) < 3 THEN Len(targets) ELSE 3),
                                      depth + 1)
             IN  Fetched(subs.urls, <<url>> \o subs.requests, subs.raised)
        ELSE IF doc.shape = "urlset"
        THEN Fetched(SelectSeq(doc.locs, IsHttpLoc), <<url>>, FALSE)
        ELSE Fetched(<<>>, <<url>>, FALSE)

(***************************************************************************)
(* SpecSitemap: find_sitemap, fetch_sitemap_urls and get_urls_for_site     *)
(* each called once against an arbitrary site.                             *)
(***************************************************************************)
\* What robots.txt answers.
ROBOTS ==
    {[response |-> r, directive |-> "None"] :
        r \in {Status(404), Raised("ConnectionError")}}
        \cup {[response |-> Status(200), directive |-> d] :
                d \in {"None", "", "sitemap_index.xml"}}

\* What one well-known path answers to HEAD and to the fallback GET.
PROBES ==
    {[head |-> Status(200), get |-> Status(200)],
     [head |-> Status(404), get |-> Status(404)],
     [head |-> Status(405), get |-> Status(200)],
     [head |-> Status(501), get |-> Raised("Timeout")],
     [head |-> Raised("ConnectionError"), get |-> Status(404)]}

PROBE_SEQS == [DOMAIN WELL_KNOWN_SITEMAPS -> PROBES]

\* The sitemaps of a site.
SITEMAP_NAMES == {"sitemap_index.xml", "post-sitemap.xml", "page-sitemap.xml"}

\* The <loc> lists of an index: none, itself (once, and four times), lists
\* of the others, a list with an upper-case "POST", and four sitemaps the
\* site does not have.
SUB_MAP_LISTS ==
    {<<>>, <<"sitemap_index.xml">>, <<"page-sitemap.xml">>,
     <<"page-sitemap.xml", "post-sitemap.xml">>,
     <<"post-sitemap.xml", "sitemap_index.xml", "page-sitemap.xml">>,
     <<"sitemap_index.xml", "sitemap_index.xml", "sitemap_index.xml",
       "sitemap_index.xml">>,
     <<"POST-sitemap.xml", "page-sitemap.xml">>,
     <<"a.xml", "b.xml", "c.xml", "d.xml">>}

\* The <loc> of a URL set: two pages and a relative link between them.
URLSET_LOCS ==
    <<Url(0, "a", FALSE), [Url(0, "c", FALSE) EXCEPT !.abs = FALSE], Url(0, "b", FALSE)>>

DOCUMENTS ==
    {[NoDocument EXCEPT !.response = r] :
        r \in {Status(404), Status(503), Raised("Timeout")}}
        \cup {[NoDocument EXCEPT !.response = Status(200), !.shape = sh] :
                sh \in {"other", "broken"}}
        \cup {[NoDocument EXCEPT !.response = Status(200), !.shape = "urlset",
                                 !.locs = URLSET_LOCS]}
        \cup {[NoDocument EXCEPT !.response = Status(200), !.shape = "index",
                                 !.sub_maps = subs] : subs \in SUB_MAP_LISTS}
        \cup {[NoDocument EXCEPT !.response = Status(200), !.shape = "index",
                                 !.sub_maps = <<"page-sitemap.xml">>,
                                 !.locs = URLSET_LOCS]}

WEBS == [SITEMAP_NAMES -> DOCUMENTS]

SitemapInit ==
    /\ config = DefaultConfig
    /\ storage = StorageManager(EmptyFiles)
    /\ disk = EmptyFiles
    /\ importer = ImportManager
    /\ called = {}
    /\ rate_limiter = RateLimiter
    /\ last = NoEvent
    /\ Idle

\* A call of find_sitemap(base_url).
FindSitemapCall ==
    /\ last = NoEvent
    /\ \E robots \in ROBOTS, probes \in PROBE_SEQS :
          last' = [op |-> "find_sitemap", robots |-> robots, probes |-> probes,
                   result |-> find_sitemap(robots, probes)]
    /\ UNCHANGED <<config, storage, disk, importer, called, rate_limiter, orch>>

\* A call of fetch_sitemap_urls(url).
FetchSitemapCall ==
    /\ last = NoEvent
    /\ \E web \in WEBS, url \in SITEMAP_NAMES :
          last' = [op |-> "fetch_sitemap_urls", web |-> web, url |-> url,
                   result |-> fetch_sitemap_urls(web, url, 0)]
    /\ UNCHANGED <<config, storage, disk, importer, called, rate_limiter, orch>>

\* A call of get_urls_for_site(site) on the empty cache: find_sitemap, and
\* fetch_sitemap_urls of what it found.  Every well-known path answers alike.
SiteCrawlCall ==
    /\ last = NoEvent
    /\ \E robots \in ROBOTS, probe \in PROBES, web \in WEBS :
          LET probes == [i \in DOMAIN WELL_KNOWN_SITEMAPS |-> probe]
              found  == find_sitemap(robots, probes)
              isurl  == found.sitemap_url \notin {"None", ""}
              urls   == IF isurl
                        THEN fetch_sitemap_urls(web, found.sitemap_url, 0)
                        ELSE Fetched(<<>>, <<>>, FALSE)
              r      == get_urls_for_site(World, 1,
                                          [now |-> 0, found |-> isurl, urls |-> urls.urls])
          IN  /\ SetWorld(r.W)
              /\ last' = [op |-> "get_urls_for_site", robots |-> robots,
                          probes |-> probes, web |-> web,
                          sitemap_url |-> found.sitemap_url,
                          result |-> Fetched(r.urls, urls.requests,
                                             found.raised \/ urls.raised)]
    /\ UNCHANGED <<config, importer, called, rate_limiter, orch>>

SitemapNext == FindSitemapCall \/ FetchSitemapCall \/ SiteCrawlCall

SpecSitemap == SitemapInit /\ [][SitemapNext]_vars

(***************************************************************************)
(* StorageManager.__init__ reading its files (storage.py).  A file is      *)
(* missing, unreadable as JSON ("corrupt"), or holds a JSON value.         *)
(***************************************************************************)
MissingFile == [state |-> "missing", content |-> {}]

CorruptFile == [state |-> "corrupt", content |-> {}]

JsonFile(content) == [state |-> "json", content |-> content]

\* The value of a loader, and whether the loader ends by raising.
Loaded(value, raised) == [value |-> value, raised |-> raised]

\* _load_json_set: a JSON list of strings, its entries normalized.
_load_json_set(file) ==
    IF file.state = "missing" THEN Loaded({}, FALSE)
    ELSE IF file.state = "corrupt" THEN Loaded({}, FALSE)
    ELSE Loaded({_normalize_url_key(x) : x \in file.content}, FALSE)

\* A _load_json_dict without its except clause.
_load_json_dict_uncaught(file) ==
    IF file.state = "missing" THEN Loaded(EmptyDict, FALSE)
    ELSE IF file.state = "corrupt" THEN Loaded(EmptyDict, TRUE)
    ELSE Loaded(file.content, FALSE)

\* _load_json_dict: a JSON object as it is.
_load_json_dict(file) ==
    IF file.state = "missing" THEN Loaded(EmptyDict, FALSE)
    ELSE IF file.state = "corrupt" THEN Loaded(EmptyDict, FALSE)
    ELSE Loaded(file.content, FALSE)

\* StorageManager.__init__ over the five files: the object built, with its
\* stats, and whether the construction raises.
LoadStore(files) ==
    LET rejects  == _load_json_set(files.rejects)
        imported == _load_json_set(files.imported)
        retry    == _load_json_dict(files.retry_queue)
        stats    == _load_json_dict(files.stats)
        sitemaps == _load_json_dict(files.sitemap_cache)
    IN  [raised |-> rejects.raised \/ imported.raised \/ retry.raised
                       \/ stats.raised \/ sitemaps.raised,
         stats  |-> stats.value,
         mem    |-> [imported      |-> imported.value,
                     rejects       |-> rejects.value,
                     retry_queue   |-> _canonicalize_retry_queue(retry.value),
                     sitemap_cache |-> sitemaps.value,
                     _changes_since_flush |-> 0]]

(***************************************************************************)
(* SpecLoad: one construction of the store over arbitrary files.           *)
(***************************************************************************)
BadFiles == {MissingFile, CorruptFile}

SET_FILES ==
    BadFiles \cup {JsonFile({Url(1, "a", FALSE)}),
                   JsonFile({Url(0, "a", TRUE), Url(0, "b", FALSE)})}

RETRY_FILES ==
    BadFiles \cup {JsonFile(DictPut(EmptyDict, Url(1, "b", FALSE), [attempts |-> 1])),
                   JsonFile(DictPut(DictPut(EmptyDict, Url(0, "b", TRUE), [attempts |-> 1]),
                                    Url(1, "b", FALSE), [attempts |-> 2]))}

STATS_FILES == BadFiles \cup {JsonFile(DictPut(EmptyDict, 1, [imported |-> 1]))}

CACHE_FILES ==
    BadFiles \cup {JsonFile(DictPut(EmptyDict, 1,
                                    [urls |-> <<Url(0, "a", FALSE)>>, timestamp |-> 0]))}

STORE_FILES ==
    [imported : SET_FILES, rejects : SET_FILES, retry_queue : RETRY_FILES,
     stats : STATS_FILES, sitemap_cache : CACHE_FILES]

\* What flush_all would find on disk of the four collections it rewrites.
DiskOf(files) ==
    [imported      |-> files.imported.content,
     rejects       |-> files.rejects.content,
     retry_queue   |-> IF files.retry_queue.state = "json"
                       THEN files.retry_queue.content ELSE EmptyDict,
     sitemap_cache |-> IF files.sitemap_cache.state = "json"
                       THEN files.sitemap_cache.content ELSE EmptyDict]

LoadInit ==
    /\ config = DefaultConfig
    /\ storage = StorageManager(EmptyFiles)
    /\ disk = EmptyFiles
    /\ importer = ImportManager
    /\ called = {}
    /\ rate_limiter = RateLimiter
    /\ last = NoEvent
    /\ Idle

\* `storage = StorageManager()`
StoreLoad ==
    /\ last = NoEvent
    /\ \E files \in STORE_FILES :
          LET r == LoadStore(files)
          IN  /\ storage' = r.mem
              /\ disk' = DiskOf(files)
              /\ last' = [op |-> "StorageManager", files |-> files,
                          raised |-> r.raised, stats |-> r.stats]
    /\ UNCHANGED <<config, importer, called, rate_limiter, orch>>

LoadNext == StoreLoad

SpecLoad == LoadInit /\ [][LoadNext]_vars

(***************************************************************************)
(* SpecUrl: canonicalize_url applied to arbitrary input, to its own result *)
(* and to a second spelling of the input.  A second spelling is made from  *)
(* the input by changes that leave the page the same, each kind of change  *)
(* at most once.                                                           *)
(***************************************************************************)
MaxWww == 2        \* the most leading "www." labels of an input
MaxQuery == 2      \* the most query parameters of an input

\* Paths: "", "/", "/r", "/r/", "//r//"
RAW_PATHS == {<<>>, <<"/">>, <<"/", "r">>, <<"/", "r", "/">>, <<"/", "/", "r", "/", "/">>}

RAW_KEYS == {"UTM_SOURCE", "fbclid", "id", "page"}

RAW_QUERIES == UNION {[1..n -> RAW_KEYS] : n \in 0..MaxQuery}

\* The inputs: with and without scheme and netloc, in lower and mixed case.
RAW_URLS ==
    [abs : BOOLEAN, upper : BOOLEAN, www : 0..MaxWww, host : {"a"},
     path : RAW_PATHS, query : RAW_QUERIES]

UrlEvent(op, url, variant, changed) ==
    [op |-> op, url |-> url, variant |-> variant, changed |-> changed,
     key |-> EmptyUrl, again |-> EmptyUrl, variant_key |-> EmptyUrl]

UrlInit ==
    /\ config = DefaultConfig
    /\ storage = StorageManager(EmptyFiles)
    /\ disk = EmptyFiles
    /\ importer = ImportManager
    /\ called = {}
    /\ rate_limiter = RateLimiter
    /\ last \in {UrlEvent("input", u, u, {}) : u \in RAW_URLS}
    /\ Idle

\* Whether the second spelling may still change in respect `kind`.
CanRespell(kind) ==
    last.op \in {"input", "respell"} /\ kind \notin last.changed

\* the case of scheme and host
RespellCase ==
    /\ CanRespell("case")
    /\ last' = UrlEvent("respell", last.url, [last.variant EXCEPT !.upper = ~@],
                        last.changed \cup {"case"})
    /\ UNCHANGED <<config, storage, disk, importer, called, rate_limiter, orch>>

\* one more leading "www."
RespellWww ==
    /\ CanRespell("www")
    /\ last' = UrlEvent("respell", last.url, [last.variant EXCEPT !.www = @ + 1],
                        last.changed \cup {"www"})
    /\ UNCHANGED <<config, storage, disk, importer, called, rate_limiter, orch>>

\* one more tracking parameter
RespellTracking ==
    /\ CanRespell("tracking")
    /\ \E key \in {"UTM_SOURCE", "fbclid"} :
          last' = UrlEvent("respell", last.url,
                           [last.variant EXCEPT !.query = Append(@, key)],
                           last.changed \cup {"tracking"})
    /\ UNCHANGED <<config, storage, disk, importer, called, rate_limiter, orch>>

\* the order of the query parameters
RespellOrder ==
    /\ CanRespell("order")
    /\ Len(last.variant.query) >= 2
    /\ last' = UrlEvent("respell", last.url,
                        [last.variant EXCEPT
                           !.query = [i \in DOMAIN @ |-> @[Len(@) + 1 - i]]],
                        last.changed \cup {"order"})
    /\ UNCHANGED <<config, storage, disk, importer, called, rate_limiter, orch>>

\* a trailing slash more, or one less
RespellSlash ==
    LET path == last.variant.path
    IN  /\ CanRespell("slash")
        /\ path # <<>>
        /\ last' = UrlEvent("respell", last.url,
                            [last.variant EXCEPT
                               !.path = IF path[Len(path)] = "/"
                                        THEN SubSeq(path, 1, Len(path) - 1)
                                        ELSE Append(path, "/")],
                            last.changed \cup {"slash"})
        /\ UNCHANGED <<config, storage, disk, importer, called, rate_limiter, orch>>

\* canonicalize_url(url), canonicalize_url of its result, and
\* canonicalize_url(variant)
Canonicalize ==
    /\ last.op \in {"input", "respell"}
    /\ last' = [last EXCEPT
                  !.op = "canonicalize_url",
                  !.key = canonicalize_url(last.url),
                  !.again = canonicalize_url(canonicalize_url(last.url)),
                  !.variant_key = canonicalize_url(last.variant)]
    /\ UNCHANGED <<config, storage, disk, importer, called, rate_limiter, orch>>

UrlNext ==
    \/ RespellCase
    \/ RespellWww
    \/ RespellTracking
    \/ RespellOrder
    \/ RespellSlash
    \/ Canonicalize

SpecUrl == UrlInit /\ [][UrlNext]_vars

(***************************************************************************)
(* RecipeVerifier (verifier.py).  The path of the URL is the sequence of   *)
(* "/" and segment names of the URL model; a fetched page is modelled by   *)
(* what verify_recipe reads from it.                                       *)
(***************************************************************************)
\* config.NON_RECIPE_EXTENSIONS
NON_RECIPE_EXTENSIONS ==
    {".jpg", ".jpeg", ".png", ".gif", ".webp", ".svg", ".bmp", ".ico", ".pdf",
     ".zip", ".mp4", ".webm", ".mov", ".avi", ".mkv"}

\* config.NON_RECIPE_PATH_HINTS
NON_RECIPE_PATH_HINTS ==
    {<<"/", "wp-content", "/", "uploads", "/">>, <<"/", "wp-json", "/">>,
     <<"/", "category", "/">>, <<"/", "tag", "/">>, <<"/", "author", "/">>,
     <<"/", "feed", "/">>}

\* str.lower() on a path segment
LowerSegment(seg) ==
    CASE seg = "PHOTO.JPG" -> "photo.jpg"
      [] seg = "Blog"      -> "blog"
      [] seg = "Category"  -> "category"
      [] OTHER             -> seg

\* parsed.path.lower()
LowerPath(path) == [i \in DOMAIN path |-> LowerSegment(path[i])]

\* The extension a path segment ends with, "" for none.
Extension(seg) ==
    CASE seg = "photo.jpg" -> ".jpg"
      [] seg = "PHOTO.JPG" -> ".JPG"
      [] seg = "menu.pdf"  -> ".pdf"
      [] OTHER             -> ""

\* `marker in path`
Contains(path, marker) ==
    \E i \in 0..(Len(path) - Len(marker)) :
        SubSeq(path, i + 1, i + Len(marker)) = marker

\* pre_filter_candidate without the lower-casing of the path.
pre_filter_candidate_case_sensitive(url) ==
    LET path == url.path
    IN  IF path # <<>> /\ Extension(path[Len(path)]) \in NON_RECIPE_EXTENSIONS
        THEN "Non-HTML media URL"
        ELSE IF \E marker \in NON_RECIPE_PATH_HINTS : Contains(path, marker)
        THEN "Non-recipe path"
        ELSE IF path \in {<<"/", "blog">>, <<"/", "blog", "/">>}
        THEN "Blog index path"
        ELSE "None"

\* RecipeVerifier.pre_filter_candidate(url): the reason, "None" for None
pre_filter_candidate(url) ==
    LET path == LowerPath(url.path)
    IN  IF path # <<>> /\ Extension(path[Len(path)]) \in NON_RECIPE_EXTENSIONS
        THEN "Non-HTML media URL"
        ELSE IF \E marker \in NON_RECIPE_PATH_HINTS : Contains(path, marker)
        THEN "Non-recipe path"
        ELSE IF path \in {<<"/", "blog">>, <<"/", "blog", "/">>}
        THEN "Blog index path"
        ELSE "None"

\* A signal that takes ingredients or instructions of any JSON-LD object.
RECURSIVE _recipe_schema_signal_any_type(_, _)
_recipe_schema_signal_any_type(items, has_recipe_type) ==
    IF items = <<>>
    THEN [has_recipe_type |-> has_recipe_type, strong_payload |-> FALSE]
    ELSE IF Head(items).ingredients \/ Head(items).instructions
    THEN [has_recipe_type |-> TRUE, strong_payload |-> TRUE]
    ELSE _recipe_schema_signal_any_type(Tail(items),
                                        has_recipe_type \/ Head(items).recipe_type)

\* RecipeVerifier._recipe_schema_signal: the loop over the JSON-LD objects
\* of the page.  An item says whether its @type is Recipe
\* (_is_recipe_type), whether recipeIngredient is non-empty
\* (_has_ingredients) and whether recipeInstructions is (_has_instructions).
RECURSIVE _recipe_schema_signal(_, _)
_recipe_schema_signal(items, has_recipe_type) ==
    IF items = <<>>
    THEN [has_recipe_type |-> has_recipe_type, strong_payload |-> FALSE]
    ELSE IF ~Head(items).recipe_type
    THEN _recipe_schema_signal(Tail(items), has_recipe_type)
    ELSE IF Head(items).ingredients \/ Head(items).instructions
    THEN [has_recipe_type |-> TRUE, strong_payload |-> TRUE]
    ELSE _recipe_schema_signal(Tail(items), TRUE)

\* The tuple verify_recipe returns (without the parsed page), and the number
\* of requests it sent.
Verdict(accepted, reason, transient, requests) ==
    [accepted |-> accepted, reason |-> reason, transient |-> transient,
     requests |-> requests]

\* Except clauses that take every exception for transient.
VerifyException_all_transient(kind) ==
    Verdict(FALSE, OtherError(kind), TRUE, 1)

\* The except clauses of verify_recipe.
VerifyException(kind) ==
    CASE kind = "Timeout"          -> Verdict(FALSE, OtherError("Timeout"), TRUE, 1)
      [] kind = "ConnectionError"  -> Verdict(FALSE, OtherError("Connection error"), TRUE, 1)
      [] kind = "RequestException" -> Verdict(FALSE, OtherError("Request error"), TRUE, 1)
      [] OTHER                     -> Verdict(FALSE, OtherError("Exception"), FALSE, 1)

\* A language filter that does not look at LANGUAGE_FILTER_ENABLED and
\* TARGET_LANGUAGE.
LanguageFilter_unconditional(cfg, page) ==
    IF page.language # "" /\ page.language # cfg.TARGET_LANGUAGE
    THEN "Language mismatch"
    ELSE IF cfg.LANGUAGE_DETECTION_STRICT /\ page.language = ""
    THEN "Language unknown"
    ELSE "None"

\* The language filter of verify_recipe: its reason, "None" when it passes.
\* page.language is what detect_language_from_html detects, "" for nothing.
LanguageFilter(cfg, page) ==
    IF ~(cfg.LANGUAGE_FILTER_ENABLED /\ cfg.TARGET_LANGUAGE # "") THEN "None"
    ELSE IF page.language # "" /\ page.language # cfg.TARGET_LANGUAGE
    THEN "Language mismatch"
    ELSE IF cfg.LANGUAGE_DETECTION_STRICT /\ page.language = ""
    THEN "Language unknown"
    ELSE "None"

\* RecipeVerifier.verify_recipe(url).  env.response answers the GET;
\* env.page is the page of a 200: its JSON-LD items, whether it has a
\* recipe-plugin CSS class, its language, what is_paranoid_skip returns for
\* it, and whether parsing it raises.
verify_recipe(cfg, url, env) ==
    IF pre_filter_candidate(url) # "None"
    THEN Verdict(FALSE, OtherError(pre_filter_candidate(url)), FALSE, 0)
    ELSE IF env.response.kind # "status"
    THEN VerifyException(env.response.kind)
    ELSE IF env.response.status # 200
    THEN Verdict(FALSE, HttpError(env.response.status),
                 IsTransientStatus(env.response.status), 1)
    ELSE IF env.page.raises
    THEN VerifyException("Exception")
    ELSE LET signal == _recipe_schema_signal(env.page.items, FALSE)
         IN  IF ~signal.strong_payload /\ ~env.page.has_recipe_card
             THEN IF signal.has_recipe_type
                  THEN Verdict(FALSE, OtherError("Weak recipe schema"), FALSE, 1)
                  ELSE Verdict(FALSE, OtherError("No recipe detected"), FALSE, 1)
             ELSE IF LanguageFilter(cfg, env.page) # "None"
             THEN Verdict(FALSE, OtherError(LanguageFilter(cfg, env.page)), FALSE, 1)
             ELSE IF env.page.skip_reason # "None"
             THEN Verdict(FALSE, OtherError(env.page.skip_reason), FALSE, 1)
             ELSE Verdict(TRUE, NoError, FALSE, 1)

(***************************************************************************)
(* SpecVerify: verify_recipe called once with an arbitrary URL against an  *)
(* arbitrary site.                                                         *)
(***************************************************************************)
MaxItems == 2      \* the most JSON-LD objects of a page

\* The paths of the URLs verified: "/r", "/photo.jpg", "/PHOTO.JPG",
\* "/photo.jpg/", "/menu.pdf", "/category/r", "/Category/r", "/category",
\* "/wp-content/uploads/photo.jpg", "/blog", "/blog/", "/Blog", "/blog/r".
VERIFY_PATHS ==
    {<<"/", "r">>, <<"/", "photo.jpg">>, <<"/", "PHOTO.JPG">>,
     <<"/", "photo.jpg", "/">>, <<"/", "menu.pdf">>,
     <<"/", "category", "/", "r">>, <<"/", "Category", "/", "r">>,
     <<"/", "category">>,
     <<"/", "wp-content", "/", "uploads", "/", "photo.jpg">>,
     <<"/", "blog">>, <<"/", "blog", "/">>, <<"/", "Blog">>,
     <<"/", "blog", "/", "r">>}

VERIFY_URLS == {[Url(0, "a", FALSE) EXCEPT !.path = path] : path \in VERIFY_PATHS}

\* The answers to the GET: statuses in and out of TRANSIENT_HTTP_CODES, and
\* the exceptions session.get raises.
VERIFY_RESPONSES ==
    {Status(n) : n \in {200, 201, 301, 404, 408, 429, 500, 501, 503, 521, 599}}
        \cup {Raised(k) : k \in {"Timeout", "ConnectionError", "RequestException", "Exception"}}

JSON_LD_ITEMS == [recipe_type : BOOLEAN, ingredients : BOOLEAN, instructions : BOOLEAN]

NoPage ==
    [items |-> <<>>, has_recipe_card |-> FALSE, language |-> "",
     skip_reason |-> "None", raises |-> FALSE]

\* The pages of a 200: a page whose parsing raises has nothing else to it.
PAGES ==
    {[NoPage EXCEPT !.raises = TRUE]}
        \cup [items : UNION {[1..n -> JSON_LD_ITEMS] : n \in 0..MaxItems},
              has_recipe_card : BOOLEAN, language : {"en", "es", ""},
              skip_reason : {"None", "How-to article"}, raises : {FALSE}]

\* A page comes only with a 200.
VERIFY_ENVS ==
    {[response |-> r, page |-> NoPage] : r \in VERIFY_RESPONSES \ {Status(200)}}
        \cup {[response |-> Status(200), page |-> page] : page \in PAGES}

VerifyInit ==
    /\ config \in
         {[LANGUAGE_FILTER_ENABLED |-> f, LANGUAGE_DETECTION_STRICT |-> s,
           TARGET_LANGUAGE |-> t] : f \in BOOLEAN, s \in BOOLEAN, t \in {"en", ""}}
    /\ storage = StorageManager(EmptyFiles)
    /\ disk = EmptyFiles
    /\ importer = ImportManager
    /\ called = {}
    /\ rate_limiter = RateLimiter
    /\ last = NoEvent
    /\ Idle

\* The call of verify_recipe(url).
VerifyCall ==
    /\ last = NoEvent
    /\ \E url \in VERIFY_URLS, env \in VERIFY_ENVS :
          last' = [op |-> "verify_recipe", url |-> url, response |-> env.response,
                   page |-> env.page, result |-> verify_recipe(config, url, env)]
    /\ UNCHANGED <<config, storage, disk, importer, called, rate_limiter, orch>>

VerifyNext == VerifyCall

SpecVerify == VerifyInit /\ [][VerifyNext]_vars

(***************************************************************************)
(* SpecStore: the store alone, driven by arbitrary calls.                  *)
(***************************************************************************)
MaxAttempts == 3     \* add_retry is called while a key's attempts are below it

\* The URLs the store is called with: two spellings of one key.
STORE_URLS == {Url(0, "a", FALSE), Url(1, "a", TRUE)}

StoreInit ==
    /\ config = DefaultConfig
    /\ storage = StorageManager(EmptyFiles)
    /\ disk = EmptyFiles
    /\ importer = ImportManager
    /\ called = {}
    /\ rate_limiter = RateLimiter
    /\ last = NoEvent
    /\ Idle

StoreAddImported ==
    \E url \in STORE_URLS :
        /\ SetWorld(add_imported(World, url))
        /\ called' = called \cup {_normalize_url_key(url)}
        /\ UNCHANGED <<config, importer, rate_limiter, last, orch>>

StoreAddReject ==
    \E url \in STORE_URLS :
        /\ SetWorld(add_reject(World, url))
        /\ called' = called \cup {_normalize_url_key(url)}
        /\ UNCHANGED <<config, importer, rate_limiter, last, orch>>

StoreAddRetry ==
    \E url \in STORE_URLS, increment \in BOOLEAN :
        /\ Attempts(storage.retry_queue, _normalize_url_key(url)) < MaxAttempts
        /\ SetWorld(add_retry(World, url, increment))
        /\ called' = called \cup {_normalize_url_key(url)}
        /\ UNCHANGED <<config, importer, rate_limiter, last, orch>>

StoreNext == StoreAddImported \/ StoreAddReject \/ StoreAddRetry

SpecStore == StoreInit /\ [][StoreNext]_vars

(***************************************************************************)
(* SpecAlgebra: two store operations applied one after the other to an     *)
(* arbitrary store, as handle_import_result calls them.                    *)
(***************************************************************************)
STORE_OPS == {"add_imported", "add_reject", "add_retry"}

\* One call of handle_import_result's store operation for url_key.
ApplyOp(W, op, url_key) ==
    CASE op = "add_imported" -> add_imported(W, url_key)
      [] op = "add_reject"   -> add_reject(W, url_key)
      [] op = "add_retry"    -> add_retry(W, url_key, TRUE)

\* The canonical keys the orchestrator derives: canonicalize_url of a
\* candidate URL.
CANONICAL_KEYS ==
    {canonicalize_url(u) :
        u \in {Url(0, "a", FALSE), Url(0, "b", TRUE), Url(2, "a", FALSE)}}

\* The stores the operations are applied to.
ALGEBRA_FILES ==
    {[EmptyFiles EXCEPT !.imported = i, !.rejects = r, !.retry_queue = q] :
        i \in SUBSET {Url(0, "a", FALSE)},
        r \in SUBSET {Url(0, "b", FALSE)},
        q \in {EmptyDict,
               DictPut(EmptyDict, Url(0, "a", FALSE), [attempts |-> 1]),
               DictPut(DictPut(EmptyDict, Url(0, "a", FALSE), [attempts |-> 1]),
                       Url(0, "b", FALSE), [attempts |-> 2])}}

\* imported, rejects and retry_queue (its attempt counts) of a store.
Contents(mem) ==
    [imported |-> mem.imported, rejects |-> mem.rejects,
     retry_queue |-> mem.retry_queue]

AlgebraInit ==
    /\ config = DefaultConfig
    /\ \E files \in ALGEBRA_FILES :
          /\ storage = StorageManager(files)
          /\ disk = files
    /\ importer = ImportManager
    /\ called = {}
    /\ rate_limiter = RateLimiter
    /\ last = NoEvent
    /\ Idle

\* Two operations on two different keys; `swapped` is the store the other
\* order gives.
ApplyPair ==
    /\ last = NoEvent
    /\ \E k1 \in CANONICAL_KEYS, k2 \in CANONICAL_KEYS,
          op1 \in STORE_OPS, op2 \in STORE_OPS :
          /\ k1 # k2
          /\ SetWorld(ApplyOp(ApplyOp(World, op1, k1), op2, k2))
          /\ called' = {_normalize_url_key(k1), _normalize_url_key(k2)}
          /\ last' = [op |-> "pair", k1 |-> k1, k2 |-> k2, op1 |-> op1, op2 |-> op2,
                      swapped |-> ApplyOp(ApplyOp(World, op2, k2), op1, k1).mem]
    /\ UNCHANGED <<config, importer, rate_limiter, orch>>

\* One operation applied twice to one key; `once` is the store after the
\* first application.
ApplyTwice ==
    /\ last = NoEvent
    /\ \E k \in CANONICAL_KEYS, op \in STORE_OPS :
          /\ SetWorld(ApplyOp(ApplyOp(World, op, k), op, k))
          /\ called' = {_normalize_url_key(k)}
          /\ last' = [op |-> "twice", k |-> k, op1 |-> op,
                      once |-> ApplyOp(World, op, k).mem]
    /\ UNCHANGED <<config, importer, rate_limiter, orch>>

AlgebraNext == ApplyPair \/ ApplyTwice

SpecAlgebra == AlgebraInit /\ [][AlgebraNext]_vars

\* The collections (of imported, rejects, retry_queue) that hold key k.
Holders(k) ==
    {c \in {"imported", "rejects", "retry_queue"} :
        \/ c = "imported" /\ k \in storage.imported
        \/ c = "rejects" /\ k \in storage.rejects
        \/ c = "retry_queue" /\ k \in DOMAIN storage.retry_queue}

\* C1: after any sequence of add_imported / add_reject / add_retry calls for
\* a key, starting from an empty store, the key is in exactly one of
\* imported, rejects and retry_queue.
C1_ExactlyOne == \A k \in called : Cardinality(Holders(k)) = 1

(***************************************************************************)
(* Retry exhaustion.                                                       *)
(***************************************************************************)
\* C2: a key whose transient failures number at least MAX_RETRY_ATTEMPTS is
\* in rejects and is not in retry_queue.  The attempts of a queue entry are
\* raised by one for each transient failure of its key that the store was
\* told of and by nothing else, so a key with attempts >= MAX_RETRY_ATTEMPTS
\* has failed transiently at least that often.
C2_RetryExhaustion ==
    \A k \in KEYS :
        Attempts(storage.retry_queue, k) >= config.MAX_RETRY_ATTEMPTS
            => (k \in storage.rejects /\ k \notin DOMAIN storage.retry_queue)

(***************************************************************************)
(* The site loop's bookkeeping.                                            *)
(***************************************************************************)
\* The candidate the last iteration handled to its end is where its outcome
\* says it should be.
C3_Handled ==
    (last.op = "cand" /\ last.verified) =>
        CASE last.result = "imported"  -> last.url_key \in storage.imported
          [] last.result = "transient" ->
                /\ last.url_key \in DOMAIN storage.retry_queue
                /\ last.url_key \notin storage.rejects
          [] last.result = "permanent" -> last.url_key \in storage.rejects
          [] OTHER -> TRUE

\* The iteration that leaves the candidate loop from the pool branch leaves
\* its verified candidate in the store.
C3_InHandKept ==
    (pc \in {"gate", "gate_wait"} /\ pc' = "final_drain")
        => (Holders(UrlKey(site.url)) # {})'

\* When a site's processing ends, every candidate handed to the pool is in
\* the store.
C3_PoolKept ==
    (pc = "final_drain" /\ pc' = "sites")
        => \A f \in pending_imports : (Holders(UrlKey(f.url)) # {})'

\* C3: every candidate processed in the site loop is recorded: a successful
\* import puts its key in imported, a transient failure (of verification or
\* import) in retry_queue and not in rejects, a permanent failure in
\* rejects; no processed candidate is left outside all three collections.
C3_EveryCandidateRecorded ==
    [][C3_Handled' /\ C3_InHandKept /\ C3_PoolKept]_vars

(***************************************************************************)
(* import_to_mealie's mapping of the response status.                      *)
(***************************************************************************)
\* C4: in live mode the status that decides an import gives the outcome:
\* 200/201/202 and 409 give (True, None, False) and the canonical URL is in
\* the known-source index; a status of TRANSIENT_HTTP_CODES gives a failure
\* with transient = True; any other status but 404/405 a failure with
\* transient = False.
C4_StatusMapping ==
    (/\ last.op = "import_recipe"
     /\ ~config.dry_run_mode /\ config.MEALIE_ENABLED
     /\ last.decided.kind = "status" /\ last.decided.status # 0)
        => LET status == last.decided.status
           IN  CASE status \in {200, 201, 202, 409} ->
                      /\ last.outcome = Outcome(TRUE, NoError, FALSE)
                      /\ canonicalize_url(last.url) \in importer._known_source_urls
                 [] status \in TRANSIENT_HTTP_CODES ->
                      /\ ~last.outcome.imported
                      /\ last.outcome.transient
                 [] status \notin {404, 405} ->
                      /\ ~last.outcome.imported
                      /\ ~last.outcome.transient
                 [] OTHER -> FALSE

\* A POST answered 409 was counted a success and its URL remembered.
C4_Witness ==
    /\ last.op = "import_recipe"
    /\ ~config.dry_run_mode /\ config.MEALIE_ENABLED
    /\ last.decided = Status(409)
    /\ last.outcome.imported
    /\ canonicalize_url(last.url) \in importer._known_source_urls

(***************************************************************************)
(* The skip of a candidate the store already knows.                        *)
(***************************************************************************)
\* The candidate loop is about to take a candidate whose key is in imported,
\* rejects or retry_queue.
C5_KnownCandidateNext ==
    /\ pc = "cand"
    /\ candidates # <<>>
    /\ ~kill_now /\ ~site.abort_site
    /\ site.imported_count < config.target_count
    /\ Holders(UrlKey(Head(candidates))) # {}

\* C5: the iteration for a candidate whose key is already in imported,
\* rejects or retry_queue waits for no rate limit, verifies nothing, imports
\* nothing and leaves the store (and its files) unchanged.
C5_SkipKnown ==
    [][(C5_KnownCandidateNext /\ candidates' = Tail(candidates))
          => /\ UNCHANGED <<storage, disk, importer, pending_imports>>
             /\ ~last'.waited /\ ~last'.verified /\ ~last'.submitted]_vars

\* A candidate whose key waits in the retry queue was skipped.
C5_Witness ==
    /\ last.op = "cand"
    /\ last.result = "skipped"
    /\ last.url_key \in DOMAIN storage.retry_queue

(***************************************************************************)
(* The circuit breaker.                                                    *)
(***************************************************************************)
\* C6: once the consecutive HTTP 5xx import failures of a site have reached
\* SITE_IMPORT_FAILURE_THRESHOLD (abort_site is set), no further candidate of
\* the site is verified or submitted for import; a successful import resets
\* the count of consecutive failures.
C6_CircuitBreaker ==
    /\ ~(/\ last.op \in {"cand", "submit"}
         /\ (last.verified \/ last.submitted)
         /\ last.abort_before)
    /\ (last.op = "cand" /\ last.result = "imported" /\ pc = "cand")
            => site.site_import_failure_streak = 0

(***************************************************************************)
(* The per-site import target.                                             *)
(***************************************************************************)
\* C7: the imports recorded for the site plus the imports in the pool never
\* exceed the per-site target.
C7_TargetBound ==
    site.imported_count + Cardinality(pending_imports) <= config.target_count

\* The pool branch has filled the target: some imports recorded, the rest
\* in the pool.
C7_Witness ==
    /\ pending_imports # {}
    /\ site.imported_count > 0
    /\ site.imported_count + Cardinality(pending_imports) = config.target_count

(***************************************************************************)
(* Cancellation.                                                           *)
(***************************************************************************)
\* C8: no step of the site loop, the candidate loop or the retry-queue loop
\* that finds the stop flag set waits for a rate limit, verifies a URL or
\* submits one for import.
C8_NoWorkAfterStop ==
    ~(/\ last.op \in {"retry", "cand", "submit"}
      /\ (last.waited \/ last.verified \/ last.submitted)
      /\ last.kill_before)

(***************************************************************************)
(* Persistence.                                                            *)
(***************************************************************************)
\* The files hold what the store holds in memory.
Persisted ==
    /\ disk.imported = storage.imported
    /\ disk.rejects = storage.rejects
    /\ disk.retry_queue = storage.retry_queue
    /\ disk.sitemap_cache = storage.sitemap_cache

\* C9: when the orchestrator has finished a site (with or without
\* candidates) and when run() has returned, the files equal the store.
C9_PersistedAfterSite ==
    (last.op \in {"site_end", "site_empty", "return"}) => Persisted

(***************************************************************************)
(* Dry run.                                                                *)
(***************************************************************************)
\* C10: with dry_run set, import_recipe returns (True, None, False) for
\* every URL and does nothing on the network.
C10_DryRunSucceeds ==
    (last.op = "import_recipe" /\ config.dry_run_mode)
        => (last.outcome = Outcome(TRUE, NoError, FALSE) /\ last.net = NoNet)

(***************************************************************************)
(* C11.  In live mode with the duplicate precheck enabled and the source   *)
(* index loaded, import_to_mealie called with a URL whose canonical form   *)
(* is in the index returns (True, None, False), sends no POST (no request  *)
(* at all) and does not wait on the rate limiter; the URL may be spelled   *)
(* with "www.", a tracking parameter or a trailing slash.  Checked on      *)
(* every call of SpecImport, the index taken as it is before the call.     *)
(***************************************************************************)
C11_PrecheckHit ==
    [][(/\ last'.op = "import_recipe"
        /\ ~config.dry_run_mode
        /\ config.MEALIE_ENABLED
        /\ config.IMPORT_PRECHECK_DUPLICATES
        /\ importer._source_index_loaded
        /\ canonicalize_url(last'.url) \in importer._known_source_urls)
       => (/\ last'.outcome = Success
           /\ last'.net = NoNet
           /\ importer' = importer)]_vars

\* A live call with a tracking parameter in its URL was answered from the
\* index: success with nothing sent and no wait.
C11_Witness ==
    /\ last.op = "import_recipe"
    /\ ~config.dry_run_mode
    /\ config.MEALIE_ENABLED
    /\ config.IMPORT_PRECHECK_DUPLICATES
    /\ importer._source_index_loaded
    /\ last.url.query # <<>>
    /\ last.url \notin importer._known_source_urls
    /\ canonicalize_url(last.url) \in importer._known_source_urls
    /\ last.outcome = Success
    /\ last.net = NoNet

(***************************************************************************)
(* C12.  Endpoint fallback.  As the claim states it: a 404 or 405 from one *)
(* path variant moves on to the next variant; when every variant answered  *)
(* 404 or 405 the import fails permanently (transient False); and a        *)
(* variant that answered 2xx or 409 is remembered and is the first variant *)
(* tried by every later import, so the remembered variant never changes.   *)
(***************************************************************************)
\* In one call: every POST but the last was answered 404 or 405, and a last
\* POST answered 404 or 405 was to the last variant and fails permanently.
C12_FallbackInCall(ev) ==
    /\ \A i \in 1..(Len(ev.tried) - 1) :
          ev.answers[i].kind = "status" /\ ev.answers[i].status \in {404, 405}
    /\ \A i, j \in DOMAIN ev.tried : i # j => ev.tried[i] # ev.tried[j]
    /\ LET n == Len(ev.tried)
       IN  (ev.answers[n].kind = "status" /\ ev.answers[n].status \in {404, 405})
              => /\ n = Len(_mealie_endpoint_candidates)
                 /\ ev.outcome = Outcome(FALSE, HttpError(ev.answers[n].status), FALSE)

\* A call that POSTs tries the remembered variant first.
C12_RememberedFirst(imp, ev) ==
    imp._mealie_import_path # 0 => ev.tried[1] = imp._mealie_import_path

\* A 2xx or 409 makes the variant that gave it the remembered one.
C12_Remembers(ev, imp_after) ==
    LET n == Len(ev.tried)
    IN  (ev.answers[n].kind = "status" /\ IsAcceptedStatus(ev.answers[n].status))
            => imp_after._mealie_import_path = ev.tried[n]

C12_RememberedForEver ==
    [][(last'.op = "import_recipe" /\ last'.tried # <<>>)
       => (/\ C12_FallbackInCall(last')
           /\ C12_RememberedFirst(importer, last')
           /\ C12_Remembers(last', importer')
           /\ (importer._mealie_import_path # 0
                 => importer'._mealie_import_path = importer._mealie_import_path))]_vars

\* C12 as amended: the same, the remembered variant being the one that most
\* recently answered 2xx or 409: it is tried first by later imports until
\* another variant answers 2xx or 409 and takes its place.
C12_EndpointFallback ==
    [][(last'.op = "import_recipe" /\ last'.tried # <<>>)
       => (/\ C12_FallbackInCall(last')
           /\ C12_RememberedFirst(importer, last')
           /\ C12_Remembers(last', importer')
           /\ (importer'._mealie_import_path # importer._mealie_import_path
                 => /\ last'.outcome = Success
                    /\ importer'._mealie_import_path = last'.tried[Len(last'.tried)]))]_vars

\* The second variant was remembered and tried first, answered 404, and the
\* first variant answered 2xx or 409 and is now the remembered one.
C12_Witness ==
    /\ last.op = "import_recipe"
    /\ last.tried = <<2, 1>>
    /\ last.answers[1] = Status(404)
    /\ last.outcome = Success
    /\ importer._mealie_import_path = 1

(***************************************************************************)
(* C13.  get_urls_for_site(site, force_refresh).  As the claim states it:  *)
(* with force_refresh False and a non-expired cache entry the call returns *)
(* exactly the cached URLs in their order, sends no request and writes     *)
(* nothing; otherwise (a miss, or force_refresh) it sends requests and the *)
(* cache holds the URLs it returns, stamped with the time of the call.     *)
(***************************************************************************)
\* The site has an entry that has not expired on day `now`.
C13_NonExpired(now) ==
    /\ 1 \in DOMAIN storage.sitemap_cache
    /\ now - storage.sitemap_cache[1].timestamp <= CACHE_EXPIRY_DAYS

\* The hit: the cached URLs, no request, the store and its files untouched.
C13_HitStep ==
    /\ last'.urls = storage.sitemap_cache[1].urls
    /\ ~last'.http
    /\ storage' = storage
    /\ disk' = disk

\* The cache holds the returned URLs under the time of the call.
C13_WrittenStep ==
    /\ last'.http
    /\ 1 \in DOMAIN storage'.sitemap_cache
    /\ storage'.sitemap_cache[1] = [urls |-> last'.urls, timestamp |-> last'.now]

C13_MissAlwaysWrites ==
    [][last'.op = "get_urls_for_site"
       => IF ~config.force_refresh /\ C13_NonExpired(last'.now)
          THEN C13_HitStep
          ELSE C13_WrittenStep]_vars

\* C13 as amended: on a miss (or with force_refresh) the call looks for the
\* sitemap; when it finds one it fetches its URLs, writes them to the cache
\* and returns them; when it finds none it returns no URL and writes nothing.
C13_CacheHitOrCrawl ==
    [][last'.op = "get_urls_for_site"
       => IF ~config.force_refresh /\ C13_NonExpired(last'.now)
          THEN C13_HitStep
          ELSE IF last'.found
          THEN C13_WrittenStep /\ last'.urls = last'.fetched
          ELSE /\ last'.http
               /\ last'.urls = <<>>
               /\ storage' = storage
               /\ disk' = disk]_vars

\* A call without force_refresh was answered from the cache: the cached
\* pages came back with no request sent.
C13_Witness ==
    /\ last.op = "get_urls_for_site"
    /\ ~config.force_refresh
    /\ last.had >= 0
    /\ ~last.http
    /\ last.urls # <<>>
    /\ last.urls = storage.sitemap_cache[1].urls

(***************************************************************************)
(* C14.  The cache's time to live.  As the claim states it: an entry older *)
(* than CACHE_EXPIRY_DAYS is a miss, so the site is crawled again and the  *)
(* entry replaced by one with the time of the call; an entry within the    *)
(* window is a hit.  (force_refresh False: get_cached_sitemap is asked.)   *)
(***************************************************************************)
\* The entry within the window: returned as it is and kept.
C14_FreshStep ==
    /\ ~last'.http
    /\ last'.urls = storage.sitemap_cache[1].urls
    /\ storage'.sitemap_cache = storage.sitemap_cache

C14_ExpiredAlwaysReplaced ==
    [][(last'.op = "get_urls_for_site" /\ ~config.force_refresh /\ last'.had >= 0)
       => IF last'.now - last'.had > CACHE_EXPIRY_DAYS
          THEN last'.http /\ storage'.sitemap_cache[1].timestamp = last'.now
          ELSE C14_FreshStep]_vars

\* C14 as amended: the expired entry is replaced when the new crawl finds a
\* sitemap, and stays as it is when it finds none.
C14_ExpiryWindow ==
    [][(last'.op = "get_urls_for_site" /\ ~config.force_refresh /\ last'.had >= 0)
       => IF last'.now - last'.had > CACHE_EXPIRY_DAYS
          THEN /\ last'.http
               /\ IF last'.found
                  THEN storage'.sitemap_cache[1] =
                           [urls |-> last'.fetched, timestamp |-> last'.now]
                  ELSE storage'.sitemap_cache = storage.sitemap_cache
          ELSE C14_FreshStep]_vars

\* An entry written on day 0 was found expired on day CACHE_EXPIRY_DAYS + 1
\* and replaced by a new one of that day.
C14_Witness ==
    /\ last.op = "get_urls_for_site"
    /\ ~config.force_refresh
    /\ last.had = 0
    /\ last.now = CACHE_EXPIRY_DAYS + 1
    /\ last.http
    /\ last.found
    /\ storage.sitemap_cache[1].timestamp = last.now

(***************************************************************************)
(* C15.  canonicalize_url is idempotent: for every input, hosts with       *)
(* repeated "www." labels, paths with repeated or trailing slashes,        *)
(* queries with keys in any case and input without a scheme included,      *)
(* canonicalize_url(canonicalize_url(u)) = canonicalize_url(u).            *)
(***************************************************************************)
C15_Idempotent ==
    last.op = "canonicalize_url" => last.again = last.key

(***************************************************************************)
(* C16.  Two URLs that differ only in the case of scheme and host, in a    *)
(* leading "www.", in tracking parameters, in the order of the other query *)
(* parameters or in a trailing slash canonicalize to the same key.         *)
(***************************************************************************)
C16_SameKey ==
    last.op = "canonicalize_url" => last.variant_key = last.key

(***************************************************************************)
(* C17.  The pre-filter precedes the network: for a URL whose path ends in *)
(* a media extension, holds a non-recipe path hint or is the blog index,   *)
(* in any case of letters, verify_recipe returns (False, reason, False)    *)
(* with the pre-filter's reason and sends no request.                      *)
(***************************************************************************)
\* The paths of VERIFY_PATHS the pre-filter is to match, by kind.
C17_MediaPaths ==
    {<<"/", "photo.jpg">>, <<"/", "PHOTO.JPG">>, <<"/", "menu.pdf">>,
     <<"/", "wp-content", "/", "uploads", "/", "photo.jpg">>}

C17_HintPaths == {<<"/", "category", "/", "r">>, <<"/", "Category", "/", "r">>}

C17_BlogPaths == {<<"/", "blog">>, <<"/", "blog", "/">>, <<"/", "Blog">>}

C17_Filtered == C17_MediaPaths \cup C17_HintPaths \cup C17_BlogPaths

C17_PrefilterBeforeNetwork ==
    (last.op = "verify_recipe" /\ last.url.path \in C17_Filtered)
        => /\ ~last.result.accepted
           /\ ~last.result.transient
           /\ last.result.requests = 0
           /\ last.result.reason =
                 OtherError(IF last.url.path \in C17_MediaPaths THEN "Non-HTML media URL"
                            ELSE IF last.url.path \in C17_HintPaths THEN "Non-recipe path"
                            ELSE "Blog index path")

\* A media URL in upper case was rejected although the site would have
\* answered 200 with a recipe: nothing was requested.
C17_Witness ==
    /\ last.op = "verify_recipe"
    /\ last.url.path = <<"/", "PHOTO.JPG">>
    /\ last.response = Status(200)
    /\ last.page.has_recipe_card
    /\ last.result = Verdict(FALSE, OtherError("Non-HTML media URL"), FALSE, 0)

(***************************************************************************)
(* C18.  A response of verify_recipe's GET with a status other than 200 is *)
(* rejected with reason "HTTP <status>", transient exactly when the status *)
(* is one of 408, 425, 429, 500, 502, 503, 504, 520, 521, 522, 523, 524.   *)
(***************************************************************************)
C18_StatusRejection ==
    (/\ last.op = "verify_recipe"
     /\ last.url.path \notin C17_Filtered
     /\ last.response.kind = "status"
     /\ last.response.status # 200)
        => /\ ~last.result.accepted
           /\ last.result.reason = HttpError(last.response.status)
           /\ last.result.transient
                 <=> last.response.status \in
                        {408, 425, 429, 500, 502, 503, 504, 520, 521, 522, 523, 524}

\* A 501, a server error outside the transient set, was rejected for good.
C18_Witness ==
    /\ last.op = "verify_recipe"
    /\ last.response = Status(501)
    /\ last.result = Verdict(FALSE, HttpError(501), FALSE, 1)

(***************************************************************************)
(* C19.  Exceptions in verify_recipe.  As the claim states it: every       *)
(* exception of the request or of the parsing is turned into a rejection,  *)
(* transient for a connection error or a timeout and permanent for every   *)
(* other exception.                                                        *)
(***************************************************************************)
\* The call got past the pre-filter and an exception was raised: by the
\* request, or by the parsing of the page of a 200.
C19_Raised ==
    /\ last.op = "verify_recipe"
    /\ last.url.path \notin C17_Filtered
    /\ last.response.kind # "status" \/ last.page.raises

\* The class of the exception raised.
C19_Kind == IF last.response.kind # "status" THEN last.response.kind ELSE "Exception"

C19_OnlyConnectionAndTimeout ==
    C19_Raised
        => /\ ~last.result.accepted
           /\ last.result.transient <=> C19_Kind \in {"Timeout", "ConnectionError"}

\* C19 as amended: transient for a connection error, a timeout or any other
\* requests.exceptions.RequestException; permanent for every other exception.
C19_ExceptionClasses ==
    C19_Raised
        => /\ ~last.result.accepted
           /\ last.result.transient
                 <=> C19_Kind \in {"Timeout", "ConnectionError", "RequestException"}

\* A RequestException that is neither a timeout nor a connection error was
\* reported as transient.
C19_Witness ==
    /\ last.op = "verify_recipe"
    /\ last.response = Raised("RequestException")
    /\ last.result = Verdict(FALSE, OtherError("Request error"), TRUE, 1)

(***************************************************************************)
(* C20.  A fetched page without a strong Recipe payload (no JSON-LD object *)
(* of type Recipe with ingredients or instructions) and without a          *)
(* recipe-plugin CSS class is rejected permanently: "Weak recipe schema"   *)
(* when it has a JSON-LD object of type Recipe, "No recipe detected" when  *)
(* it has none.                                                            *)
(***************************************************************************)
C20_WeakOrNoRecipe ==
    LET items == last.page.items
    IN  (/\ last.op = "verify_recipe"
         /\ last.url.path \notin C17_Filtered
         /\ last.response = Status(200)
         /\ ~last.page.raises
         /\ ~last.page.has_recipe_card
         /\ \A i \in DOMAIN items :
               items[i].recipe_type => ~items[i].ingredients /\ ~items[i].instructions)
            => last.result =
                  Verdict(FALSE,
                          OtherError(IF \E i \in DOMAIN items : items[i].recipe_type
                                     THEN "Weak recipe schema"
                                     ELSE "No recipe detected"),
                          FALSE, 1)

\* A page whose first JSON-LD object has ingredients but is no Recipe and
\* whose second is a Recipe without ingredients or instructions was
\* rejected as "Weak recipe schema".
C20_Witness ==
    /\ last.op = "verify_recipe"
    /\ Len(last.page.items) = 2
    /\ ~last.page.items[1].recipe_type /\ last.page.items[1].ingredients
    /\ last.page.items[2].recipe_type
    /\ ~last.page.has_recipe_card
    /\ last.result = Verdict(FALSE, OtherError("Weak recipe schema"), FALSE, 1)
(***************************************************************************)
(* C21  Sitemap crawling never raises.                                     *)
(***************************************************************************)
\* The answers of a well-known path that do not find a sitemap.
C21_FailedProbe(probe) ==
    \/ probe.head \in {Status(404), Raised("ConnectionError")}
    \/ probe.head = Status(501) /\ probe.get = Raised("Timeout")

\* robots.txt and every well-known path fail.
C21_NothingFound(ev) ==
    /\ ev.robots.response # Status(200) \/ ev.robots.directive = "None"
    \* a failing robots.txt names no sitemap
    /\ \A i \in DOMAIN ev.probes : C21_FailedProbe(ev.probes[i])

\* The document fetch_sitemap_urls was asked for gives an empty list.
C21_EmptyDocument(doc) ==
    \/ doc.response # Status(200)
    \/ doc.shape \in {"other", "broken"}

\* C21: fetch_sitemap_urls, find_sitemap and get_urls_for_site never raise;
\* fetch_sitemap_urls returns the empty list for a non-200 answer, for a
\* document that is neither an index nor a URL set and for a fetch or parse
\* exception; find_sitemap returns None when robots.txt and every well-known
\* path fail, and get_urls_for_site then returns no candidates.
C21_CrawlNeverRaises ==
    /\ last.op \in {"find_sitemap", "fetch_sitemap_urls"} => ~last.result.raised
    /\ last.op = "get_urls_for_site" /\ "web" \in DOMAIN last => ~last.result.raised
    /\ last.op = "fetch_sitemap_urls" /\ C21_EmptyDocument(last.web[last.url])
          => last.result.urls = <<>>
    /\ last.op = "find_sitemap" /\ C21_NothingFound(last)
          => last.result.sitemap_url = "None"
    /\ last.op = "get_urls_for_site" /\ "web" \in DOMAIN last /\ C21_NothingFound(last)
          => last.result.urls = <<>> /\ storage.sitemap_cache = EmptyDict

\* An index whose only sub-sitemap cannot be fetched was crawled: the fetch
\* asked for both and returned the empty list.
C21_Witness ==
    /\ last.op = "fetch_sitemap_urls"
    /\ last.web[last.url].response = Status(200)
    /\ last.web[last.url].shape = "index"
    /\ last.web[last.url].sub_maps = <<"page-sitemap.xml">>
    /\ last.web["page-sitemap.xml"].response = Raised("Timeout")
    /\ last.result = Fetched(<<>>, <<last.url, "page-sitemap.xml">>, FALSE)

(***************************************************************************)
(* C22  Store loading tolerates bad files.                                 *)
(***************************************************************************)
C22_KeyA == Url(0, "a", FALSE)

C22_KeyB == Url(0, "b", FALSE)

\* What a set file gives when it is read alone.
C22_SetOf(file) ==
    IF file \in BadFiles THEN {}
    ELSE IF file = JsonFile({Url(1, "a", FALSE)}) THEN {C22_KeyA}
    ELSE {C22_KeyA, C22_KeyB}

\* What the retry file gives when it is read alone.
C22_RetryOf(file) ==
    IF file \in BadFiles THEN EmptyDict
    ELSE IF file = JsonFile(DictPut(EmptyDict, Url(1, "b", FALSE), [attempts |-> 1]))
    THEN DictPut(EmptyDict, C22_KeyB, [attempts |-> 1])
    ELSE DictPut(EmptyDict, C22_KeyB, [attempts |-> 2])

\* C22: constructing the store never raises; an artifact whose file is
\* missing or unparsable starts empty, and every artifact holds what its
\* own file gives, whatever the state of the other files.
C22_LoadTolerant ==
    last.op = "StorageManager" =>
        /\ ~last.raised
        /\ storage.imported = C22_SetOf(last.files.imported)
        /\ storage.rejects = C22_SetOf(last.files.rejects)
        /\ storage.retry_queue = C22_RetryOf(last.files.retry_queue)
        /\ last.stats = (IF last.files.stats \in BadFiles
                         THEN EmptyDict ELSE last.files.stats.content)
        /\ storage.sitemap_cache = (IF last.files.sitemap_cache \in BadFiles
                                    THEN EmptyDict
                                    ELSE last.files.sitemap_cache.content)

\* The retry file was unparsable and the stats file missing, the other
\* three were loaded.
C22_Witness ==
    /\ last.op = "StorageManager"
    /\ last.files.retry_queue = CorruptFile
    /\ last.files.stats = MissingFile
    /\ storage.retry_queue = EmptyDict
    /\ storage.imported = {C22_KeyA, C22_KeyB}
    /\ storage.rejects = {C22_KeyA}
    /\ 1 \in DOMAIN storage.sitemap_cache

(***************************************************************************)
(* C23  Fatal configuration errors abort startup.                          *)
(***************************************************************************)
\* The backend is enabled and its token is still the placeholder.
C23_PlaceholderToken == config.MEALIE_ENABLED /\ config.MEALIE_API_TOKEN = "your-token"

\* The sites file the run reads cannot be read or parsed, or is not a list
\* of sites.
C23_MalformedSites ==
    \/ config.cli \in {"corrupt", "shape"}
    \/ config.cli = "unset" /\ config.env \in {"corrupt", "shape"}
    \/ config.cli = "unset" /\ config.env = "unset"
          /\ config.sitesfile \in {"corrupt", "shape"}

\* The sites file named by --sites or by SITES cannot be read or parsed, or
\* the file named by --sites does not exist.
C23_UnreadableNamedSites ==
    \/ config.cli \in {"missing", "corrupt"}
    \/ config.cli = "unset" /\ config.env = "corrupt"

\* The run is past its start: the retry queue, a crawl or a candidate is
\* being processed, or the run has returned.
C23_Running == pc \notin {"boot", "exited"}

C24_InFlightDrained ==
    last.op = "site_end" => orphans = {}

(***************************************************************************)
(* C25  The store is mutated only by the control thread.                   *)
(***************************************************************************)
\* A pool worker's import_recipe returns in this step.
C25_WorkerReturns ==
    \/ \E f \in pending_imports :
          /\ f.st = "running"
          /\ \E g \in pending_imports' : g.url = f.url /\ g.st = "done"
    \/ pc # "done" /\ orphans' # orphans /\ orphans' \subseteq orphans

\* drain_imports pops the finished future f in this step.
C25_Drains(f) ==
    /\ pc \in {"gate", "gate_wait", "final_wait"}
    /\ f \in DoneOf(pending_imports)
    /\ f \notin pending_imports'

\* The outcome of f is in the store after the step.
C25_Applied(f) ==
    LET k == UrlKey(f.url)
    IN  IF f.outcome.imported THEN k \in storage'.imported
        ELSE IF ~f.outcome.transient THEN k \in storage'.rejects
        ELSE k \in DOMAIN storage'.retry_queue
                     \cup storage'.imported \cup storage'.rejects

\* C25: a step in which a pool worker returns leaves the store and its files
\* as they are (the worker only produces an outcome), and the step of the
\* control thread in which drain_imports pops a finished future applies
\* that outcome to the store.
C25_ControlThreadOnly ==
    [][/\ C25_WorkerReturns => storage' = storage /\ disk' = disk
       /\ \A f \in pending_imports : C25_Drains(f) => C25_Applied(f)]_vars

\* A worker has returned a successful import that the control thread has not
\* yet applied.
C25_Witness ==
    \E f \in pending_imports :
        /\ f.st = "done"
        /\ f.outcome.imported
        /\ UrlKey(f.url) \notin storage.imported

(***************************************************************************)
(* C26  The rate limiter's maps are touched by the control thread only.    *)
(***************************************************************************)
\* C26: no import worker is ever inside wait_if_needed, so never at the same
\* time as the control thread or another worker.
C26_LimiterControlThreadOnly ==
    /\ \A f \in pending_imports : f.st \notin {"robots", "in_wait"}
    /\ ~(pc = "in_wait"
            /\ \E f \in pending_imports : f.st \in {"robots", "in_wait"})

(***************************************************************************)
(* C27  The known-source index is built at most once per run.              *)
(***************************************************************************)
\* C27: the recipe listing is requested at most once per ImportManager,
\* also when several workers run import_recipe at once.
C27_ListingAtMostOnce == Cardinality(called) <= 1

(***************************************************************************)
(* C28  Store operations on distinct keys commute.                         *)
(***************************************************************************)
\* C28: for canonical keys k1 # k2, the two orders of an operation on k1 and
\* an operation on k2 give the same imported, rejects and retry_queue.
C28_DistinctKeysCommute ==
    last.op = "pair" => Contents(storage) = Contents(last.swapped)

(***************************************************************************)
(* C29  Store operations are idempotent.                                   *)
(***************************************************************************)
\* C29 as stated: applying an operation twice for a key leaves imported,
\* rejects and retry_queue, attempts included, as applying it once.
C29_Idempotent ==
    last.op = "twice" => Contents(storage) = Contents(last.once)

\* The key the store files k under (the host of k without "www.").
C29_StoreKey(k) == [k EXCEPT !.www = 0]

\* C29 as amended: add_imported and add_reject applied twice leave the three
\* collections as applying them once; add_retry with increment=True applied
\* twice leaves them as applying it once but for the entry's attempts, which
\* are one more.
C29_IdempotentButAttempts ==
    last.op = "twice" =>
        IF last.op1 = "add_retry"
        THEN /\ storage.imported = last.once.imported
             /\ storage.rejects = last.once.rejects
             /\ DOMAIN storage.retry_queue = DOMAIN last.once.retry_queue
             /\ \A k \in DOMAIN storage.retry_queue :
                   storage.retry_queue[k].attempts =
                       last.once.retry_queue[k].attempts
                           + (IF k = C29_StoreKey(last.k) THEN 1 ELSE 0)
        ELSE Contents(storage) = Contents(last.once)

\* add_retry was applied twice to a key already queued with one attempt:
\* three attempts are recorded.
C29_Witness ==
    /\ last.op = "twice"
    /\ last.op1 = "add_retry"
    /\ last.k = Url(0, "a", FALSE)
    /\ last.once.retry_queue[last.k].attempts = 2
    /\ storage.retry_queue[last.k].attempts = 3

(***************************************************************************)
(* C30  The retry queue is processed before the first site is crawled.     *)
(***************************************************************************)
\* `pending` lists every entry of the queue once.
C30_ListsQueueOnce(pending, queue) ==
    /\ Len(pending) = Cardinality(DOMAIN queue)
    /\ \A k \in DOMAIN queue :
          \E i \in DOMAIN pending :
              pending[i] = [url |-> k, attempts |-> queue[k].attempts]

\* The step handles the first entry of `pending`, which had used up its
\* attempts: it is in rejects and no longer queued, and nothing was sent.
C30_GivenUp ==
    LET entry == Head(retry_pending)
    IN  entry.attempts >= config.MAX_RETRY_ATTEMPTS =>
            /\ ~last'.waited /\ ~last'.verified /\ ~last'.submitted
            /\ importer' = importer
            /\ entry.url \in storage'.rejects
            /\ entry.url \notin DOMAIN storage'.retry_queue
            /\ entry.url \notin storage'.imported

\* C30: the retry pass takes every entry of the queue as it is at the start,
\* once each, and is over before a site is taken from the list; an entry
\* that has used up its attempts goes to rejects without a rate-limiter
\* wait, a verification or an import.
C30_RetryPassFirst ==
    [][/\ pc = "start" =>
             /\ C30_ListsQueueOnce(retry_pending', storage.retry_queue)
             /\ pc' = IF retry_pending' = <<>> THEN "sites" ELSE "retry"
       /\ pc = "retry" =>
             /\ retry_pending' = Tail(retry_pending)
             /\ last'.op = "retry"
             /\ pc' = IF retry_pending' = <<>> THEN "sites" ELSE "retry"
             /\ C30_GivenUp
       /\ pc # "boot" /\ (sites_left' # sites_left \/ (pc # "cand" /\ pc' = "cand")) =>
             pc = "sites" /\ retry_pending = <<>>]_vars

\* The pass is over: the entry that had used up its attempts is rejected,
\* the other one was handled, and no site has been crawled yet.
C30_Witness ==
    /\ pc = "sites"
    /\ last.op = "retry"
    /\ sites_left = 1
    /\ Url(0, "a", FALSE) \in storage.rejects
    /\ Url(0, "b", FALSE) \in storage.imported

(***************************************************************************)
(* C31  fetch_sitemap_urls terminates within 13 fetches.                   *)
(***************************************************************************)
\* C31: a top-level fetch_sitemap_urls, alone or from get_urls_for_site,
\* returns after at most 1 + 3 + 9 = 13 calls of session.get, whatever the
\* documents of the site are, indexes that name themselves included.
C31_AtMostThirteenFetches ==
    last.op \in {"fetch_sitemap_urls", "get_urls_for_site"}
        => Len(last.result.requests) <= 13

\* An index that names itself four times was fetched 13 times, and the call
\* returned no URL.
C31_Witness ==
    /\ last.op = "fetch_sitemap_urls"
    /\ last.url = "sitemap_index.xml"
    /\ last.web[last.url].shape = "index"
    /\ Len(last.web[last.url].sub_maps) = 4
    /\ Len(last.result.requests) = 13
    /\ \A i \in 1..13 : last.result.requests[i] = "sitemap_index.xml"
    /\ last.result.urls = <<>>

(***************************************************************************)
(* C32  The recursion targets of a sitemap index.                          *)
(***************************************************************************)
\* The sub-sitemaps an index with these <loc> recurses into: those with
\* "post" or "recipe" in document order, all of them when there is none,
\* the first three at most.
C32_TargetsOf(sub_maps) ==
    CASE sub_maps = <<>> -> <<>>
      [] sub_maps = <<"sitemap_index.xml">> -> <<"sitemap_index.xml">>
      [] sub_maps = <<"page-sitemap.xml">> -> <<"page-sitemap.xml">>
      [] sub_maps = <<"page-sitemap.xml", "post-sitemap.xml">>
            -> <<"post-sitemap.xml">>
      [] sub_maps = <<"post-sitemap.xml", "sitemap_index.xml", "page-sitemap.xml">>
            -> <<"post-sitemap.xml">>
      [] sub_maps = <<"sitemap_index.xml", "sitemap_index.xml",
                      "sitemap_index.xml", "sitemap_index.xml">>
            -> <<"sitemap_index.xml", "sitemap_index.xml", "sitemap_index.xml">>
      [] sub_maps = <<"POST-sitemap.xml", "page-sitemap.xml">>
            -> <<"POST-sitemap.xml", "page-sitemap.xml">>
      [] sub_maps = <<"a.xml", "b.xml", "c.xml", "d.xml">>
            -> <<"a.xml", "b.xml", "c.xml">>

\* The document at the root of the last fetch is an index none of whose
\* targets is an index itself.
C32_FlatIndex ==
    /\ last.op = "fetch_sitemap_urls"
    /\ last.web[last.url].response = Status(200)
    /\ last.web[last.url].shape = "index"
    /\ LET targets == C32_TargetsOf(last.web[last.url].sub_maps)
       IN  \A i \in DOMAIN targets :
              targets[i] \in SITEMAP_NAMES
                  => ~(/\ last.web[targets[i]].response = Status(200)
                       /\ last.web[targets[i]].shape = "index")

\* C32: the requests of a fetch of an index are the index and then its
\* "post" or "recipe" sub-sitemaps (case-sensitive) in document order, the
\* first three of them, all sub-sitemaps being used only when none matches;
\* and a document with <sitemap> elements contributes none of its own
\* <url> elements.
C32_IndexTargets ==
    C32_FlatIndex
        => /\ last.result.requests
                 = <<last.url>> \o C32_TargetsOf(last.web[last.url].sub_maps)
           /\ (\A i \in DOMAIN last.result.requests :
                   i > 1 => DocumentAt(last.web, last.result.requests[i]).shape
                                # "urlset")
                 => last.result.urls = <<>>

\* Of the sub-sitemaps page-sitemap.xml and post-sitemap.xml only the
\* second was fetched, and its URLs returned.
C32_Witness ==
    /\ C32_FlatIndex
    /\ last.web[last.url].sub_maps = <<"page-sitemap.xml", "post-sitemap.xml">>
    /\ last.web["page-sitemap.xml"].shape = "urlset"
    /\ last.web["post-sitemap.xml"].shape = "urlset"
    /\ last.result.requests = <<"sitemap_index.xml", "post-sitemap.xml">>
    /\ last.result.urls # <<>>

(***************************************************************************)
(* C33  The stages of verify_recipe.                                       *)
(***************************************************************************)
\* The page of the last call has a Recipe object with ingredients or
\* instructions, or a recipe-plugin CSS class.
C33_RecipeContent ==
    \/ \E i \in DOMAIN last.page.items :
          /\ last.page.items[i].recipe_type
          /\ last.page.items[i].ingredients \/ last.page.items[i].instructions
    \/ last.page.has_recipe_card

\* The language check is off, or the page passes it.
C33_LanguagePasses ==
    \/ ~config.LANGUAGE_FILTER_ENABLED
    \/ config.TARGET_LANGUAGE = ""
    \/ /\ last.page.language \in {"", config.TARGET_LANGUAGE}
       /\ ~(config.LANGUAGE_DETECTION_STRICT /\ last.page.language = "")

\* The first stage the last call fails at, "none" when it passes them all.
C33_FirstFailure ==
    IF last.url.path \in C17_Filtered THEN "pre-filter"
    ELSE IF last.response # Status(200) \/ last.page.raises THEN "fetch"
    ELSE IF ~C33_RecipeContent THEN "schema"
    ELSE IF ~C33_LanguagePasses THEN "language"
    ELSE IF last.page.skip_reason # "None" THEN "paranoid"
    ELSE "none"

\* The reasons each stage reports.
C33_ReasonsOf(stage) ==
    CASE stage = "pre-filter" ->
            {OtherError(r) : r \in {"Non-HTML media URL", "Non-recipe path",
                                    "Blog index path"}}
      [] stage = "fetch" ->
            {HttpError(last.response.status)}
                \cup {OtherError(r) : r \in {"Timeout", "Connection error",
                                              "Request error", "Exception"}}
      [] stage = "schema" ->
            {OtherError("Weak recipe schema"), OtherError("No recipe detected")}
      [] stage = "language" ->
            {OtherError("Language mismatch"), OtherError("Language unknown")}
      [] stage = "paranoid" -> {OtherError(last.page.skip_reason)}
      [] stage = "none" -> {NoError}

\* C33: verify_recipe accepts exactly the URLs that pass the pre-filter, are
\* answered 200, have recipe content, pass the language check when it is on
\* and are not skipped by is_paranoid_skip; a rejection reports the reason
\* of the first of these stages that fails, and a rejection for schema,
\* language or the paranoid filter is not transient.
C33_StagesInOrder ==
    last.op = "verify_recipe"
        => /\ last.result.accepted <=> C33_FirstFailure = "none"
           /\ last.result.reason \in C33_ReasonsOf(C33_FirstFailure)
           /\ C33_FirstFailure \in {"schema", "language", "paranoid"}
                 => ~last.result.transient

\* A page with recipe content, in another language than the target and one
\* is_paranoid_skip would skip, was rejected for its language.
C33_Witness ==
    /\ last.op = "verify_recipe"
    /\ last.response = Status(200)
    /\ C33_RecipeContent
    /\ config.LANGUAGE_FILTER_ENABLED
    /\ config.TARGET_LANGUAGE = "en"
    /\ last.page.language = "es"
    /\ last.page.skip_reason = "How-to article"
    /\ last.result = Verdict(FALSE, OtherError("Language mismatch"), FALSE, 1)

(***************************************************************************)
(* C34  wait_if_needed: when it sleeps, and what it records.               *)
(***************************************************************************)
\* The last call found a request to its domain recorded less than the
\* domain's delay ago.
C34_TooSoon ==
    /\ last.domain \in DOMAIN last.before.last_request
    /\ last.now - last.before.last_request[last.domain] < last.delay

\* C34: wait_if_needed sleeps only when a request to the same domain is
\* recorded less than the domain's delay ago, for (delay - elapsed) * jitter;
\* sleeping or not, on return last_request[domain] is the time of the
\* return, and the entries of the other domains are as before.
C34_SleepsAndRecords ==
    last.op = "wait_if_needed"
        => /\ last.slept => C34_TooSoon
           /\ last.slept
                 => last.sleep_time * 4
                       = (last.delay - (last.now - last.before.last_request[last.domain]))
                            * last.jitter
           /\ ~last.slept => last.sleep_time = 0
           /\ last.domain \in DOMAIN rate_limiter.last_request
           /\ rate_limiter.last_request[last.domain] = last.returned
           /\ last.returned >= last.now + last.sleep_time
           /\ DOMAIN rate_limiter.last_request
                 = DOMAIN last.before.last_request \cup {last.domain}
           /\ \A d \in DOMAIN last.before.last_request :
                 d # last.domain
                     => rate_limiter.last_request[d] = last.before.last_request[d]

\* A second request to a.example one second after the first, with a delay
\* of 4 and jitter 1.25: the call slept, and the time b.example was
\* requested at is kept.
C34_Witness ==
    /\ last.op = "wait_if_needed"
    /\ last.domain = "a.example"
    /\ last.slept
    /\ last.delay = 4
    /\ last.jitter = 5
    /\ last.sleep_time = 5
    /\ "b.example" \in DOMAIN last.before.last_request
    /\ rate_limiter.last_request["a.example"] = last.returned

\* The first request to a domain did not sleep and was recorded.
C34_FirstRequest ==
    /\ last.op = "wait_if_needed"
    /\ last.domain \notin DOMAIN last.before.last_request
    /\ ~last.slept
    /\ rate_limiter.last_request[last.domain] = last.returned

(***************************************************************************)
(* C37  The gap between two returns of wait_if_needed for one domain.      *)
(***************************************************************************)
\* The last call was not the first for its domain.
C37_Consecutive ==
    /\ last.op = "wait_if_needed"
    /\ last.domain \in DOMAIN last.before.last_request

\* The time between the return before and this return.
C37_Gap == last.returned - last.before.last_request[last.domain]

\* C37 as claimed: between two consecutive returns of wait_if_needed for
\* the same domain at least the domain's crawl delay has elapsed, whatever
\* the jitter.
C37_FullDelayElapsed == C37_Consecutive => C37_Gap >= last.delay

\* C37 as amended: between two consecutive returns for the same domain at
\* least the crawl delay has elapsed when the call did not sleep or drew a
\* jitter of 1 or more; for a jitter below 1 at least
\* elapsed + (delay - elapsed) * jitter has, which is never less than half
\* the delay.
C37_JitteredDelayElapsed ==
    C37_Consecutive
        => LET elapsed == last.now - last.before.last_request[last.domain]
           IN  /\ (elapsed >= last.delay \/ last.jitter >= 4)
                     => C37_Gap >= last.delay
               /\ (elapsed < last.delay /\ last.jitter < 4)
                     => /\ 4 * C37_Gap
                              >= 4 * elapsed + (last.delay - elapsed) * last.jitter
                        /\ 2 * C37_Gap >= last.delay

\* A second request at once after the first, delay 2, jitter 0.5: the call
\* returned one second after the return before.
C37_Witness ==
    /\ C37_Consecutive
    /\ last.delay = 2
    /\ last.jitter = 2
    /\ last.slept
    /\ C37_Gap = 1

(***************************************************************************)
(* C35  get_crawl_delay: the default, and one request per domain.          *)
(***************************************************************************)
\* The delay robots.txt asks for in the last call, by the lines of the
\* model's robots.txt files; -1 for none.
C35_FirstParsableOf(lines) ==
    CASE lines = <<BadDelayLine, DelayLine(4)>> -> 4
      [] lines = <<OtherLine, DelayLine(0)>> -> 0
      [] lines = <<DelayLine(4), DelayLine(0)>> -> 4
      [] OTHER -> -1

\* With one thread: the first call for a domain takes the first parsable
\* Crawl-delay of a robots.txt answered 200 and else the default, later
\* calls return the memoized delay, and robots.txt is requested once.
C35_OneThread ==
    last.op = "wait_if_needed"
        => /\ last.domain \in DOMAIN last.before.crawl_delays
                 => /\ last.delay = last.before.crawl_delays[last.domain]
                    /\ rate_limiter.session = last.before.session
           /\ last.domain \notin DOMAIN last.before.crawl_delays
                 => last.delay =
                       IF /\ last.robots.response = Status(200)
                          /\ C35_FirstParsableOf(last.robots.lines) # -1
                       THEN C35_FirstParsableOf(last.robots.lines)
                       ELSE DEFAULT_CRAWL_DELAY
           /\ rate_limiter.crawl_delays[last.domain] = last.delay
           /\ \A d \in DOMAIN rate_limiter.session : rate_limiter.session[d] = 1

\* C35: robots.txt is requested at most once per domain for the lifetime of
\* the RateLimiter.
C35_RobotsAtMostOnce ==
    \A d \in DOMAIN rate_limiter.session : rate_limiter.session[d] <= 1

(***************************************************************************)
(* C36  Exclusivity of the collections over a run with a worker pool.      *)
(***************************************************************************)
\* C36: in a run with parallel import that starts from an empty store, no
\* canonical key is in two of imported, rejects and retry_queue at once,
\* also when the candidates of a site hold two spellings of one key.
C36_ExclusiveWithPool ==
    \A k \in KEYS :
        Cardinality({c \in {"imported", "rejects", "retry_queue"} :
                        \/ c = "imported" /\ k \in storage.imported
                        \/ c = "rejects" /\ k \in storage.rejects
                        \/ c = "retry_queue" /\ k \in DOMAIN storage.retry_queue})
            <= 1

(***************************************************************************)
(* C38  The retry queue drains.                                            *)
(***************************************************************************)
\* Key k is out of the retry queue and in imported or rejects.
C38_Settled(k) ==
    /\ k \notin DOMAIN storage.retry_queue
    /\ k \in storage.imported \cup storage.rejects

\* C38: the attempts of a queued key never decrease, and every key that is
\* in retry_queue when a run starts is later out of the queue and in
\* imported or rejects: no key stays queued forever over runs that are not
\* cancelled.
C38_RetryQueueDrains ==
    /\ [][\A k \in DOMAIN storage.retry_queue \cap DOMAIN storage'.retry_queue :
            storage'.retry_queue[k].attempts >= storage.retry_queue[k].attempts]_vars
    /\ \A k \in KEYS :
          (pc = "start" /\ k \in DOMAIN storage.retry_queue) ~> C38_Settled(k)

\* The attempts of a queued key never decrease.
C38_AttemptsNeverDecrease ==
    [][\A k \in DOMAIN storage.retry_queue \cap DOMAIN storage'.retry_queue :
          storage'.retry_queue[k].attempts >= storage.retry_queue[k].attempts]_vars

\* No key stays queued forever.
C38_NoKeyQueuedForever ==
    \A k \in KEYS :
        (pc = "start" /\ k \in DOMAIN storage.retry_queue) ~> C38_Settled(k)

(***************************************************************************)
(* C39  An empty crawl result is cached.                                   *)
(***************************************************************************)
\* The site has a cache entry with no URL that is not older than
\* CACHE_EXPIRY_DAYS at the time of the call the step makes.
C39_EmptyEntryInForce ==
    /\ 1 \in DOMAIN storage.sitemap_cache
    /\ storage.sitemap_cache[1].urls = <<>>
    /\ last'.now - storage.sitemap_cache[1].timestamp <= CACHE_EXPIRY_DAYS

\* C39: a call that finds a sitemap and fetches no URL from it stores the
\* empty list in the cache; while that entry has not expired a call without
\* force_refresh returns no candidates, sends no request and leaves the
\* store as it is; a call that finds no sitemap leaves the cache as it is.
C39_EmptyResultCached ==
    [][last'.op = "get_urls_for_site"
          => /\ (last'.http /\ last'.found /\ last'.fetched = <<>>)
                    => /\ 1 \in DOMAIN storage'.sitemap_cache
                       /\ storage'.sitemap_cache[1]
                             = [urls |-> <<>>, timestamp |-> last'.now]
             /\ (~config.force_refresh /\ C39_EmptyEntryInForce)
                    => /\ last'.urls = <<>>
                       /\ ~last'.http
                       /\ storage' = storage
             /\ (last'.http /\ ~last'.found)
                    => storage'.sitemap_cache = storage.sitemap_cache]_vars

\* A call at day 7 was answered from the empty entry written at day 0,
\* although the site now has a sitemap with two pages.
C39_Witness ==
    /\ last.op = "get_urls_for_site"
    /\ ~config.force_refresh
    /\ last.had = 0
    /\ last.now = CACHE_EXPIRY_DAYS
    /\ last.found
    /\ last.fetched # <<>>
    /\ storage.sitemap_cache[1] = [urls |-> <<>>, timestamp |-> 0]
    /\ last.urls = <<>>
    /\ ~last.http

(***************************************************************************)
(* C40  A dry run records imports.                                         *)
(***************************************************************************)
\* The step is an iteration of the candidate loop (not its end).
C40_Iteration ==
    /\ pc = "cand"
    /\ pc' = "cand"
    /\ candidates # <<>>
    /\ candidates' = Tail(candidates)

\* In dry-run mode import_recipe sends nothing to the backend and reports
\* success, whatever the backend would answer.
C40_NothingSent ==
    config.dry_run_mode
        => \A url \in URLS, env \in ORCH_ENVS :
              LET r == import_recipe(importer, config, url, env)
              IN  /\ r.net = [gets |-> 0, posts |-> 0, waits |-> 0]
                  /\ r.outcome = [imported |-> TRUE,
                                  error |-> [kind |-> "None", status |-> 0],
                                  transient |-> FALSE]
                  /\ r.imp = importer

\* What a step of a run does to imported: an accepted candidate of a dry run
\* is added to it; inside a site's loop it only grows; when the loop is left
\* the imported file holds it; a candidate whose key is in it is skipped.
C40_Step ==
    /\ (config.dry_run_mode /\ C40_Iteration /\ last'.submitted)
          => /\ last'.result = "imported"
             /\ last'.url_key \in storage'.imported
             /\ importer' = importer
    /\ (pc \in {"cand", "final_drain"} /\ pc' \in {"cand", "final_drain"})
          => storage.imported \subseteq storage'.imported
    /\ (pc \in {"cand", "final_drain"} /\ pc' \notin {"cand", "final_drain"})
          => storage'.imported \subseteq disk'.imported
    /\ (C40_Iteration /\ UrlKey(Head(candidates)) \in storage.imported)
          => /\ last'.result = "skipped"
             /\ storage' = storage
             /\ importer' = importer

\* C40: in dry-run mode nothing is sent to the backend, yet every candidate
\* the verifier accepts is added to imported; imported is in the imported
\* file when the site's loop is left, by its end, its limit or a stop
\* signal; and a later run skips every candidate whose key is in imported.
C40_DryRunRecordsImports == []C40_NothingSent /\ [][C40_Step]_vars

\* The live run after the dry run skips a candidate whose key the dry run
\* wrote to the imported file; the backend has not been contacted.
C40_Witness ==
    /\ ~config.dry_run_mode
    /\ pc = "cand"
    /\ last.op = "cand"
    /\ last.result = "skipped"
    /\ last.url_key \in disk.imported
    /\ storage.imported = disk.imported
    /\ importer = ImportManager

====
